---- MODULE Spec2Model ----
(***************************************************************************)
(* The auction bot of src/lib/auction.js: one bot process running the      *)
(* check loop, each check being one call of processAuctions.  Every await  *)
(* of the code is one step of the model; the chain client, the wallet      *)
(* client and the quote service are the environment.                       *)
(***************************************************************************)
EXTENDS Integers, Sequences, FiniteSets, TLC

\* ---------------------------------------------------------------- bounds
MaxBalance == 2     \* native balance of the wallet, 0..MaxBalance
MaxTokens == 1      \* USDFC already held by the wallet
MaxFees == 1        \* USDFC in the auction's fee pool
MaxPrice == 1       \* startPrice of the auction
MaxGas == 1         \* a gas estimate (units)
MaxGasPrice == 1    \* the gas price
MaxOut == 2         \* the quote's assumedAmountOut
MaxNonce == 1       \* checks start while the transaction count is below it
MaxStartPrice == 60 \* startPrice handed to calculateCurrentPrice
MaxHalvings == 3    \* halving intervals the clock runs through
MaxOffset == 2      \* seconds looked at on either side of a halving boundary
MaxSlices == 4      \* each interval is also looked at in MaxSlices slices
MaxAuctions == 3    \* auctions handed to selectFirstAvailableAuction
MaxAllowance == 2   \* allowances run 0..MaxAllowance, the top one being the maximum
MantissaBits == 2   \* significant bits a number keeps (a double keeps 53)

\* ---------------------------------------------------------------- values
Null == [null |-> TRUE]

\* sushiswapRouterAddress: null or the router discovered at startup
RouterAddresses == {"null", "router"}

\* a response of the quote service; assumedAmountOut is a decimal string,
\* carried here as the integer it names; a response without a route has
\* neither an amount nor a transaction
SwapResponses ==
  [status : {"Success", "Partial"}, assumedAmountOut : 0..MaxOut, tx : BOOLEAN]
    \cup {[status |-> "NoRoute", assumedAmountOut |-> 0, tx |-> FALSE]}

VARIABLES
  pc,                      \* the await the bot is at
  sushiswapRouterAddress,  \* config: null or the router discovered at startup
  \* the chain
  walletFil,               \* native balance of the wallet
  walletUsdfc,             \* USDFC balance of the wallet
  chainAuction,            \* auctionInfo of the token: startPrice, startTime
  chainFunds,              \* funds of the token's fee pool
  txCount,                 \* transaction count of the signer
  mempool,                 \* transactions sent and not yet mined
  receipts,                \* receipts of the mined transactions
  \* the bot
  l,                       \* the locals of processAuctions and its callees
  calls,                   \* the external calls of this check, in order
  outcome                  \* the log line that ended the check

chainVars == <<walletFil, walletUsdfc, chainAuction, chainFunds, txCount,
               mempool, receipts>>
vars == <<pc, sushiswapRouterAddress, chainVars, l, calls, outcome>>

\* the locals before the check has assigned them
NoLocals ==
  [balance |-> 0, existingUsdfcBalance |-> 0, info |-> Null, auction |-> Null,
   auctionData |-> Null, totalSwapAmount |-> 0, swapQuote |-> Null,
   estimateFailed |-> {}, estRequest |-> Null, gasCosts |-> Null,
   profit |-> Null, nonce |-> 0,
   simRequest |-> Null, bidTx |-> Null, swapTx |-> Null, txResult |-> Null,
   waits |-> {}, bidReceipt |-> Null, swapReceipt |-> Null]

\* ------------------------------------------------------- pure functions

checkProfitabilityStrict(auctionPrice, bidGasCost, swapGasCost, swapAmountOut) ==
  LET totalGasCost == bidGasCost + swapGasCost
      totalCost == auctionPrice + totalGasCost
  IN [totalCost |-> totalCost, totalGasCost |-> totalGasCost,
      isProfitable |-> swapAmountOut > totalCost]

checkProfitability(auctionPrice, bidGasCost, swapGasCost, swapAmountOut) ==
  LET totalGasCost == bidGasCost + swapGasCost
      totalCost == auctionPrice + totalGasCost
  IN [totalCost |-> totalCost, totalGasCost |-> totalGasCost,
      isProfitable |-> swapAmountOut >= totalCost]

\* the quote passes the gate of processAuctions
QuoteIsSuccessOrPartial(q) == q # Null /\ q.status \in {"Success", "Partial"}

QuoteIsSuccess(q) == q # Null /\ q.status = "Success"

\* the wallet can pay the total cost
BalanceAlwaysSufficient(bal, totalCost) == TRUE

BalanceSufficient(bal, totalCost) == ~(bal < totalCost)

\* the sentinel of getActiveAuction: no auction was ever registered
NoAuctionByStartPrice(info) == info.startPrice = 0

IsNoAuction(info) == info.startTime = 0

\* what getActiveAuction returns for a registered auction
getActiveAuctionStale(info, funds) ==
  [token |-> "usdfc", startPrice |-> info.startPrice,
   startTime |-> info.startTime, availableFees |-> 0]

getActiveAuctionResult(info, funds) ==
  [token |-> "usdfc", startPrice |-> info.startPrice,
   startTime |-> info.startTime, availableFees |-> funds]

\* the gate of getTokenAuction on the fee pool
NeverNoFees(a) == FALSE

HasNoFees(a) == a.availableFees = 0

\* the nonces of the two transactions
BidNonce(n) == n

SwapNonceSame(n) == n

SwapNonce(n) == n + 1

\* the request simulateContract is called with and hands back
BidRequest(tokenAddress, recipient, amount, price) ==
  [functionName |-> "burnForFees", token |-> tokenAddress,
   recipient |-> recipient, amount |-> amount, value |-> price]

\* the request writeContract is called with
WriteRequestNoValue(request, n) ==
  [functionName |-> request.functionName, token |-> request.token,
   recipient |-> request.recipient, amount |-> request.amount,
   value |-> 0, nonce |-> n]

WriteRequest(request, n) ==
  [functionName |-> request.functionName, token |-> request.token,
   recipient |-> request.recipient, amount |-> request.amount,
   value |-> request.value, nonce |-> n]

\* the hash of a sent transaction
Hash(kind, n) == [kind |-> kind, nonce |-> n]

\* the receipts waitForReceipts waits for
ReceiptWaitsBidOnly(txr) == {"bid"}

ReceiptWaits(txr) ==
  {"bid"} \cup (IF txr.swapHash # Null THEN {"swap"} ELSE {})

\* where a check goes when submitBidAndSwap catches an exception
SubmitRethrown == "threw"

SubmitCaught == "Transaction submission failed"

\* processAuctions swaps when a router was discovered
swapAlwaysEnabled == TRUE

swapEnabled == sushiswapRouterAddress # "null"

\* ------------------------------------------------------------- actions

Init ==
  /\ pc = "loop"
  /\ sushiswapRouterAddress \in RouterAddresses
  /\ walletFil \in 0..MaxBalance
  /\ walletUsdfc \in 0..MaxTokens
  /\ chainAuction \in [startPrice : 0..MaxPrice, startTime : 0..1]
  /\ chainFunds \in 0..MaxFees
  /\ txCount = 0
  /\ mempool = {}
  /\ receipts = {}
  /\ l = NoLocals
  /\ calls = <<>>
  /\ outcome = "none"

\* processAuctions returns, or throws into the catch of the loop
ThrowExits == pc' = "exit" /\ outcome' = "threw"

Finish(o) == pc' = "delay" /\ outcome' = o

Throw == Finish("threw")

\* the loop calls processAuctions (checks start while the transaction count
\* is below MaxNonce)
StartCheckEarly ==
  /\ pc \in {"loop", "delay"}
  /\ txCount < MaxNonce
  /\ pc' = "getBalance"
  /\ UNCHANGED <<sushiswapRouterAddress, chainVars, l, calls, outcome>>

StartCheck ==
  /\ pc = "loop"
  /\ txCount < MaxNonce
  /\ pc' = "getBalance"
  /\ UNCHANGED <<sushiswapRouterAddress, chainVars, l, calls, outcome>>

GetBalance ==
  /\ pc = "getBalance"
  /\ calls' = Append(calls, "getBalance")
  /\ \E ok \in BOOLEAN :
       IF ok
       THEN /\ l' = [l EXCEPT !.balance = walletFil]
            /\ pc' = "getTokenBalance"
            /\ UNCHANGED outcome
       ELSE Throw /\ UNCHANGED l
  /\ UNCHANGED <<sushiswapRouterAddress, chainVars>>

\* getTokenBalance answering with the balance of the check before
GetTokenBalanceCached ==
  /\ pc = "getTokenBalance"
  /\ calls' = Append(calls, "readContract")
  /\ pc' = "auctionInfo"
  /\ UNCHANGED <<sushiswapRouterAddress, chainVars, l, outcome>>

GetTokenBalance ==
  /\ pc = "getTokenBalance"
  /\ calls' = Append(calls, "readContract")
  /\ \E ok \in BOOLEAN :
       IF ok
       THEN /\ l' = [l EXCEPT !.existingUsdfcBalance = walletUsdfc]
            /\ pc' = "auctionInfo"
            /\ UNCHANGED outcome
       ELSE Throw /\ UNCHANGED l
  /\ UNCHANGED <<sushiswapRouterAddress, chainVars>>

\* getActiveAuction up to its second read
AuctionInfo ==
  /\ pc = "auctionInfo"
  /\ calls' = Append(calls, "auctionInfo")
  /\ \E ok \in BOOLEAN :
       IF ~ok THEN Throw /\ UNCHANGED l
       ELSE /\ l' = [l EXCEPT !.info = chainAuction]
            /\ IF IsNoAuction(chainAuction)
               THEN Finish("No active auction found")
               ELSE pc' = "auctionFunds" /\ UNCHANGED outcome
  /\ UNCHANGED <<sushiswapRouterAddress, chainVars>>

\* the second read of getActiveAuction, and getTokenAuction's gates
AuctionFunds ==
  /\ pc = "auctionFunds"
  /\ calls' = Append(calls, "auctionFunds")
  /\ \E ok \in BOOLEAN :
       IF ~ok THEN Throw /\ UNCHANGED l
       ELSE LET a == getActiveAuctionResult(l.info, chainFunds) IN
            /\ l' = [l EXCEPT !.auction = a]
            /\ IF HasNoFees(a)
               THEN Finish("No available fees in auction")
               ELSE pc' = "getBlock" /\ UNCHANGED outcome
  /\ UNCHANGED <<sushiswapRouterAddress, chainVars>>

\* the amount a quote is asked for: the tokens held and the tokens bid for
TotalSwapAmountBidOnly(existingUsdfcBalance, bidAmount) == bidAmount

TotalSwapAmount(existingUsdfcBalance, bidAmount) ==
  existingUsdfcBalance + bidAmount

\* getBlock and auctionPriceAt: the decayed price at the block's timestamp,
\* which the SDK computes from the auction; it never exceeds startPrice
GetBlock ==
  /\ pc = "getBlock"
  /\ calls' = Append(calls, "getBlock")
  /\ \E ok \in BOOLEAN, price \in 0..l.auction.startPrice :
       IF ~ok THEN Throw /\ UNCHANGED l
       ELSE /\ l' = [l EXCEPT
                 !.auctionData = [bidAmount |-> l.auction.availableFees,
                                  auctionPrice |-> price],
                 !.totalSwapAmount =
                    TotalSwapAmount(l.existingUsdfcBalance,
                                    l.auction.availableFees)]
            /\ pc' = "getSwapQuote"
            /\ UNCHANGED outcome
  /\ UNCHANGED <<sushiswapRouterAddress, chainVars>>

\* getSwapQuote: what it returns (quote), whether it called the quote service
\* (called) and whether an exception left it (threw), for an amount, a
\* service that throws (thrown) or answers response
getSwapQuoteRethrow(amount, thrown, response) ==
  IF amount = 0
  THEN [quote |-> Null, called |-> FALSE, threw |-> FALSE]
  ELSE [quote |-> IF thrown THEN Null ELSE response, called |-> TRUE,
        threw |-> thrown]

getSwapQuoteZeroAsked(amount, thrown, response) ==
  [quote |-> IF thrown THEN Null ELSE response, called |-> TRUE,
   threw |-> FALSE]

getSwapQuote(amount, thrown, response) ==
  IF amount = 0
  THEN [quote |-> Null, called |-> FALSE, threw |-> FALSE]
  ELSE [quote |-> IF thrown THEN Null ELSE response, called |-> TRUE,
        threw |-> FALSE]

\* the quote service throws, or answers with one of its responses
QuoteAnswers ==
  {[thrown |-> TRUE, response |-> Null]}
    \cup [thrown : {FALSE}, response : SwapResponses]

\* getSwapQuote and the gate on its status
GetSwapQuote ==
  /\ pc = "getSwapQuote"
  /\ \E a \in QuoteAnswers :
       LET r == getSwapQuote(l.totalSwapAmount, a.thrown, a.response) IN
       /\ calls' = IF r.called THEN Append(calls, "getSwap") ELSE calls
       /\ IF r.threw THEN Throw /\ UNCHANGED l
          ELSE /\ l' = [l EXCEPT !.swapQuote = r.quote]
               /\ IF QuoteIsSuccess(r.quote)
                  THEN pc' = "estimateGasCosts" /\ UNCHANGED outcome
                  ELSE Finish("Skipping auction: swap quote status")
  /\ UNCHANGED <<sushiswapRouterAddress, chainVars>>

\* the calls estimateGasCosts issues together
EstimateCallsRepeated(q) ==
  <<"estimateContractGas", "getGasPrice", "estimateContractGas">>

EstimateCalls(q) ==
  <<"estimateContractGas">>
    \o (IF swapEnabled /\ q.tx THEN <<"estimateGas">> ELSE <<>>)
    \o <<"getGasPrice">>

\* estimateBidGas and estimateSwapGas: the estimate, or 0 when the call threw
\* (thrown = TRUE); an estimate the chain client returns is positive
estimateBidGasDefault(thrown, estimate) == IF thrown THEN 1 ELSE estimate

estimateSwapGasDefault(thrown, estimate) == IF thrown THEN 1 ELSE estimate

estimateBidGas(thrown, estimate) == IF thrown THEN 0 ELSE estimate

estimateSwapGas(thrown, estimate) == IF thrown THEN 0 ELSE estimate

\* the request estimateBidGas hands to estimateContractGas
EstimateRequestAtStartPrice(auction, auctionData) ==
  BidRequest(auction.token, "wallet", auctionData.bidAmount,
             auction.startPrice)

EstimateRequest(auction, auctionData) ==
  BidRequest(auction.token, "wallet", auctionData.bidAmount,
             auctionData.auctionPrice)

\* estimateGasCosts, checkProfitability and the two gates that follow
EstimateGasCosts ==
  /\ pc = "estimateGasCosts"
  /\ calls' = calls \o EstimateCalls(l.swapQuote)
  /\ \E bid \in 0..MaxGas, swap \in 0..MaxGas,
        priceOk \in BOOLEAN, gasPrice \in 1..MaxGasPrice :
       LET swapAsked == swapEnabled /\ l.swapQuote.tx
           request == EstimateRequest(l.auction, l.auctionData)
           bidGasEstimate == estimateBidGas(bid = 0, bid)
           swapGasEstimate ==
             IF swapAsked THEN estimateSwapGas(swap = 0, swap) ELSE 0
           failed == (IF bid = 0 THEN {"bid"} ELSE {})
                       \cup (IF swapAsked /\ swap = 0 THEN {"swap"} ELSE {})
           costs == [bidGasCost |-> gasPrice * bidGasEstimate,
                     swapGasCost |-> gasPrice * swapGasEstimate]
           p == checkProfitability(l.auctionData.auctionPrice,
                                   costs.bidGasCost, costs.swapGasCost,
                                   l.swapQuote.assumedAmountOut)
       IN
       /\ swapAsked \/ swap = 0
       /\ IF ~priceOk
          THEN Throw /\ l' = [l EXCEPT !.estimateFailed = failed,
                                       !.estRequest = request]
          ELSE IF bidGasEstimate = 0
          THEN /\ l' = [l EXCEPT !.estimateFailed = failed,
                                 !.estRequest = request]
               /\ Finish("Skipping auction due to gas estimation failure")
          ELSE /\ l' = [l EXCEPT !.estimateFailed = failed,
                                 !.estRequest = request,
                                 !.gasCosts = costs, !.profit = p]
               /\ IF ~p.isProfitable
                  THEN Finish("Auction not profitable")
                  ELSE IF ~BalanceSufficient(l.balance, p.totalCost)
                  THEN Finish("Insufficient balance")
                  ELSE pc' = "getTransactionCount" /\ UNCHANGED outcome
  /\ UNCHANGED <<sushiswapRouterAddress, chainVars>>

\* submitBidAndSwap reads the transaction count, outside its try
GetTransactionCount ==
  /\ pc = "getTransactionCount"
  /\ calls' = Append(calls, "getTransactionCount")
  /\ \E ok \in BOOLEAN :
       IF ok
       THEN /\ l' = [l EXCEPT !.nonce = txCount]
            /\ pc' = "simulateContract"
            /\ UNCHANGED outcome
       ELSE Throw /\ UNCHANGED l
  /\ UNCHANGED <<sushiswapRouterAddress, chainVars>>

\* placeBid simulates burnForFees
SimulateContract ==
  /\ pc = "simulateContract"
  /\ calls' = Append(calls, "simulateContract")
  /\ \E ok \in BOOLEAN :
       IF ok
       THEN /\ l' = [l EXCEPT !.simRequest =
                        BidRequest(l.auction.token, "wallet",
                                   l.auctionData.bidAmount,
                                   l.auctionData.auctionPrice)]
            /\ pc' = "writeContract"
            /\ UNCHANGED outcome
       ELSE Finish(SubmitCaught) /\ UNCHANGED l
  /\ UNCHANGED <<sushiswapRouterAddress, chainVars>>

\* waitForReceipts issues its waits
IssueWaits(loc, txr) ==
  [loc EXCEPT !.txResult = txr, !.waits = ReceiptWaits(txr)]

WaitCallsBidOnly(txr) == <<"waitForTransactionReceipt">>

WaitCalls(txr) ==
  [i \in 1..Cardinality(ReceiptWaits(txr)) |-> "waitForTransactionReceipt"]

\* placeBid writes the bid; without a swap the waits follow at once
WriteContractSwapsWithoutTx ==
  /\ pc = "writeContract"
  /\ LET request == WriteRequest(l.simRequest, BidNonce(l.nonce))
         hash == Hash("bid", request.nonce)
         txr == [bidHash |-> hash, swapHash |-> Null]
     IN \E ok \in BOOLEAN :
       IF ok /\ request.nonce >= txCount
       THEN /\ mempool' = mempool \cup {hash}
            /\ UNCHANGED outcome
            /\ IF swapEnabled
               THEN /\ l' = [l EXCEPT !.bidTx = request]
                    /\ calls' = Append(calls, "writeContract")
                    /\ pc' = "sendTransaction"
               ELSE /\ l' = IssueWaits([l EXCEPT !.bidTx = request], txr)
                    /\ calls' = Append(calls, "writeContract") \o WaitCalls(txr)
                    /\ pc' = "receipts"
       ELSE /\ Finish(SubmitCaught)
            /\ calls' = Append(calls, "writeContract")
            /\ UNCHANGED <<l, mempool>>
  /\ UNCHANGED <<sushiswapRouterAddress, walletFil, walletUsdfc, chainAuction,
                 chainFunds, txCount, receipts>>

WriteContract ==
  /\ pc = "writeContract"
  /\ LET request == WriteRequest(l.simRequest, BidNonce(l.nonce))
         hash == Hash("bid", request.nonce)
         txr == [bidHash |-> hash, swapHash |-> Null]
     IN \E ok \in BOOLEAN :
       IF ok /\ request.nonce >= txCount
       THEN /\ mempool' = mempool \cup {hash}
            /\ UNCHANGED outcome
            /\ IF swapEnabled /\ l.swapQuote.tx
               THEN /\ l' = [l EXCEPT !.bidTx = request]
                    /\ calls' = Append(calls, "writeContract")
                    /\ pc' = "sendTransaction"
               ELSE /\ l' = IssueWaits([l EXCEPT !.bidTx = request], txr)
                    /\ calls' = Append(calls, "writeContract") \o WaitCalls(txr)
                    /\ pc' = "receipts"
       ELSE /\ Finish(SubmitCaught)
            /\ calls' = Append(calls, "writeContract")
            /\ UNCHANGED <<l, mempool>>
  /\ UNCHANGED <<sushiswapRouterAddress, walletFil, walletUsdfc, chainAuction,
                 chainFunds, txCount, receipts>>

\* executeSwap sends the swap; the waits follow at once
SendTransactionAwaitsBid ==
  /\ pc = "sendTransaction"
  /\ LET request == [to |-> sushiswapRouterAddress,
                     nonce |-> SwapNonce(l.nonce)]
         hash == Hash("swap", request.nonce)
         bidHash == Hash("bid", l.bidTx.nonce)
         txr == [bidHash |-> bidHash, swapHash |-> hash]
         bidOnly == [bidHash |-> bidHash, swapHash |-> Null]
     IN \E ok \in BOOLEAN :
       IF ok /\ request.nonce >= txCount
       THEN /\ mempool' = mempool \cup {hash}
            /\ l' = IssueWaits([l EXCEPT !.swapTx = request], txr)
            /\ calls' = Append(calls, "sendTransaction") \o WaitCalls(txr)
       ELSE /\ l' = IssueWaits(l, bidOnly)
            /\ calls' = Append(calls, "sendTransaction") \o WaitCalls(bidOnly)
            /\ UNCHANGED mempool
  /\ pc' = "receipts"
  /\ UNCHANGED <<sushiswapRouterAddress, walletFil, walletUsdfc, chainAuction,
                 chainFunds, txCount, receipts, outcome>>

SendTransaction ==
  /\ pc = "sendTransaction"
  /\ LET request == [to |-> sushiswapRouterAddress,
                     nonce |-> SwapNonce(l.nonce)]
         hash == Hash("swap", request.nonce)
         txr == [bidHash |-> Hash("bid", l.bidTx.nonce), swapHash |-> hash]
     IN \E ok \in BOOLEAN :
       IF ok /\ request.nonce >= txCount
       THEN /\ mempool' = mempool \cup {hash}
            /\ l' = IssueWaits([l EXCEPT !.swapTx = request], txr)
            /\ calls' = Append(calls, "sendTransaction") \o WaitCalls(txr)
            /\ pc' = "receipts"
            /\ UNCHANGED outcome
       ELSE /\ Finish(SubmitCaught)
            /\ calls' = Append(calls, "sendTransaction")
            /\ UNCHANGED <<l, mempool>>
  /\ UNCHANGED <<sushiswapRouterAddress, walletFil, walletUsdfc, chainAuction,
                 chainFunds, txCount, receipts>>

\* a failed receipt taken as an exception
FailedReceiptThrows(loc) ==
  IF \/ loc.bidReceipt.status # "success"
     \/ loc.swapReceipt # Null /\ loc.swapReceipt.status # "success"
  THEN "threw" ELSE "Receipts logged"

\* waitForReceipts after both waits: the receipts are logged, a status other
\* than success adds a line to the log and nothing else
LogReceipts(loc) == "Receipts logged"

\* one of the waits of waitForReceipts resolves, or rejects
ResolveReceipt ==
  /\ pc = "receipts"
  /\ \E k \in l.waits :
       LET hash == IF k = "bid" THEN l.txResult.bidHash
                   ELSE l.txResult.swapHash
       IN
       \/ Throw /\ UNCHANGED l
       \/ \E r \in receipts :
            /\ r.tx = hash
            /\ LET got == [status |-> r.status]
                   loc == IF k = "bid"
                          THEN [l EXCEPT !.bidReceipt = got,
                                         !.waits = l.waits \ {k}]
                          ELSE [l EXCEPT !.swapReceipt = got,
                                         !.waits = l.waits \ {k}]
               IN /\ l' = loc
                  /\ IF loc.waits = {}
                     THEN Finish(LogReceipts(loc))
                     ELSE UNCHANGED <<pc, outcome>>
  /\ UNCHANGED <<sushiswapRouterAddress, chainVars, calls>>

\* the running check holds the hash of transaction t
HoldsHash(t) ==
  /\ pc \in {"sendTransaction", "receipts"}
  /\ \/ t.kind = "bid" /\ l.bidTx # Null /\ t.nonce = l.bidTx.nonce
     \/ t.kind = "swap" /\ l.swapTx # Null /\ t.nonce = l.swapTx.nonce

\* the chain mines the signer's next transaction; its receipt is kept while
\* the check that sent it can still ask for it
Mine ==
  /\ \E t \in mempool, status \in {"success", "reverted"} :
       /\ t.nonce = txCount
       /\ txCount' = txCount + 1
       /\ mempool' = {u \in mempool : u.nonce > t.nonce}
       /\ receipts' = IF HoldsHash(t)
                      THEN receipts \cup {[tx |-> t, status |-> status]}
                      ELSE receipts
  /\ UNCHANGED <<pc, sushiswapRouterAddress, walletFil, walletUsdfc,
                 chainAuction, chainFunds, l, calls, outcome>>

\* the delay of the loop elapses; the check's locals are gone
DelayKeepsLocals ==
  /\ pc = "delay"
  /\ pc' = "loop"
  /\ calls' = <<>>
  /\ outcome' = "none"
  /\ receipts' = {}
  /\ UNCHANGED <<sushiswapRouterAddress, walletFil, walletUsdfc, chainAuction,
                 chainFunds, txCount, mempool, l>>

Delay ==
  /\ pc = "delay"
  /\ pc' = "loop"
  /\ l' = NoLocals
  /\ calls' = <<>>
  /\ outcome' = "none"
  /\ receipts' = {}
  /\ UNCHANGED <<sushiswapRouterAddress, walletFil, walletUsdfc, chainAuction,
                 chainFunds, txCount, mempool>>

\* between two checks the chain moves on: a balance, the auction or the
\* fee pool changes
ChainChange ==
  /\ pc = "loop"
  /\ \/ walletFil' \in 0..MaxBalance
        /\ UNCHANGED <<walletUsdfc, chainAuction, chainFunds>>
     \/ walletUsdfc' \in 0..MaxTokens
        /\ UNCHANGED <<walletFil, chainAuction, chainFunds>>
     \/ chainAuction' \in [startPrice : 0..MaxPrice, startTime : 0..1]
        /\ UNCHANGED <<walletFil, walletUsdfc, chainFunds>>
     \/ chainFunds' \in 0..MaxFees
        /\ UNCHANGED <<walletFil, walletUsdfc, chainAuction>>
  /\ UNCHANGED <<pc, sushiswapRouterAddress, txCount, mempool, receipts, l,
                 calls, outcome>>

Next ==
  \/ StartCheck
  \/ GetBalance
  \/ GetTokenBalance
  \/ AuctionInfo
  \/ AuctionFunds
  \/ GetBlock
  \/ GetSwapQuote
  \/ EstimateGasCosts
  \/ GetTransactionCount
  \/ SimulateContract
  \/ WriteContract
  \/ SendTransaction
  \/ ResolveReceipt
  \/ Mine
  \/ Delay
  \/ ChainChange

Spec == Init /\ [][Next]_vars

\* -------------------------------------------------------------- claims

\* how often the check has made the call
Count(call) == Cardinality({i \in DOMAIN calls : calls[i] = call})

LastCall == IF calls = <<>> THEN "none" ELSE calls[Len(calls)]

\* the total cost of the bid, from the locals of the check
CostOf(loc) ==
  loc.auctionData.auctionPrice + loc.gasCosts.bidGasCost
    + loc.gasCosts.swapGasCost

\* C1: the transaction count is read at most once in a check, as N; a
\* written bid carries nonce N and a sent swap carries nonce N + 1, also
\* when the swap's receipt resolves before the bid's.
C1_NonceOrdering ==
  /\ Count("getTransactionCount") <= 1
  /\ l.bidTx # Null =>
       /\ Count("getTransactionCount") = 1
       /\ l.bidTx.nonce = l.nonce
  /\ l.swapTx # Null =>
       /\ l.bidTx # Null
       /\ l.swapTx.nonce = l.nonce + 1
  /\ l.txResult # Null =>
       /\ l.txResult.bidHash.nonce = l.nonce
       /\ l.txResult.swapHash # Null =>
            l.txResult.swapHash.nonce = l.nonce + 1

\* C1 witness: both transactions are sent and the swap's receipt has
\* resolved while the bid's has not.
C1_Witness ==
  /\ l.swapTx # Null
  /\ l.swapReceipt # Null
  /\ l.bidReceipt = Null

\* C2: a bid is written (or about to be) only if, in this check, an auction
\* with availableFees > 0 was read, the quote was Success, the bid gas
\* estimate succeeded, swapAmountOut >= totalCost >= auctionPrice and the
\* balance read at the start covers totalCost; with swapAmountOut or the
\* balance below totalCost nothing is simulated, written or sent.
C2_BidOnlyIfGates ==
  /\ (pc = "writeContract" \/ Count("writeContract") > 0) =>
       /\ l.auction # Null
       /\ l.auction.availableFees > 0
       /\ l.swapQuote # Null
       /\ l.swapQuote.status = "Success"
       /\ l.gasCosts # Null
       /\ "bid" \notin l.estimateFailed
       /\ l.swapQuote.assumedAmountOut >= CostOf(l)
       /\ l.swapQuote.assumedAmountOut >= l.auctionData.auctionPrice
       /\ l.balance >= CostOf(l)
       /\ Count("getBalance") = 1
       /\ calls[1] = "getBalance"
  /\ (l.gasCosts # Null
        /\ (l.swapQuote.assumedAmountOut < CostOf(l)
              \/ l.balance < CostOf(l))) =>
       /\ Count("simulateContract") = 0
       /\ Count("writeContract") = 0
       /\ Count("sendTransaction") = 0
       /\ pc = "delay"

\* C2 witness: a bid was written by a wallet whose balance just covers the
\* total cost.
C2_Witness ==
  /\ l.bidTx # Null
  /\ l.balance = CostOf(l)

\* C3: checkProfitability returns totalCost = auctionPrice + bidGasCost +
\* swapGasCost and isProfitable exactly when swapAmountOut >= totalCost: true
\* at break-even, false one unit below.
C3_Profitability ==
  l.profit # Null =>
    /\ l.profit.totalCost = CostOf(l)
    /\ l.profit.totalGasCost
         = l.gasCosts.bidGasCost + l.gasCosts.swapGasCost
    /\ l.profit.isProfitable
         = (l.swapQuote.assumedAmountOut >= CostOf(l))
    /\ l.swapQuote.assumedAmountOut = CostOf(l) => l.profit.isProfitable
    /\ l.swapQuote.assumedAmountOut = CostOf(l) - 1 => ~l.profit.isProfitable

\* C3 witness: a break-even check found profitable.
C3_Witness ==
  /\ l.profit # Null
  /\ l.swapQuote.assumedAmountOut = l.profit.totalCost
  /\ l.profit.isProfitable

\* C4: writeContract is called only right after a successful simulateContract
\* and with the simulated request plus the nonce; after a simulation that
\* threw there is no write, no swap and no receipt wait, and processAuctions
\* returns without throwing.
C4_SimulateThenWrite ==
  /\ \A i \in DOMAIN calls :
       calls[i] = "writeContract" =>
         /\ i > 1
         /\ calls[i - 1] = "simulateContract"
         /\ l.simRequest # Null
  /\ l.bidTx # Null =>
       /\ DOMAIN l.bidTx = DOMAIN l.simRequest \cup {"nonce"}
       /\ \A f \in DOMAIN l.simRequest : l.bidTx[f] = l.simRequest[f]
       /\ l.bidTx.nonce = l.nonce
       /\ l.simRequest.functionName = "burnForFees"
       /\ l.simRequest.amount = l.auctionData.bidAmount
       /\ l.simRequest.value = l.auctionData.auctionPrice
  /\ (Count("simulateContract") > 0 /\ l.simRequest = Null) =>
       /\ pc = "delay"
       /\ outcome = "Transaction submission failed"
       /\ LastCall = "simulateContract"
       /\ l.bidTx = Null /\ l.swapTx = Null /\ l.waits = {}
       /\ Count("waitForTransactionReceipt") = 0

\* C4 witness: the simulation threw.
C4_Witness ==
  /\ pc = "delay"
  /\ LastCall = "simulateContract"
  /\ l.simRequest = Null

\* C5: when simulating the bid, writing the bid or sending the swap throws,
\* submitBidAndSwap yields null and processAuctions returns normally with no
\* receipt awaited.
C5_SubmitFailureCaught ==
  (pc = "delay"
     /\ LastCall \in {"simulateContract", "writeContract", "sendTransaction"})
  =>
    /\ outcome = "Transaction submission failed"
    /\ l.txResult = Null
    /\ l.waits = {}
    /\ Count("waitForTransactionReceipt") = 0

\* C5 witness: the bid was written and the swap send threw.
C5_Witness ==
  /\ pc = "delay"
  /\ LastCall = "sendTransaction"
  /\ l.bidTx # Null

\* s is a prefix of t
IsPrefix(s, t) == Len(s) <= Len(t) /\ SubSeq(t, 1, Len(s)) = s

\* the calls of a check that places a bid and a swap
FullFlowCalls ==
  <<"getBalance", "readContract", "auctionInfo", "auctionFunds", "getBlock",
    "getSwap", "estimateContractGas", "estimateGas", "getGasPrice",
    "getTransactionCount", "simulateContract", "writeContract",
    "sendTransaction", "waitForTransactionReceipt",
    "waitForTransactionReceipt">>

\* no external call of the finished check failed
NoCallFailed ==
  /\ pc = "delay"
  /\ outcome \notin {"threw", "Transaction submission failed"}
  /\ l.estimateFailed = {}

\* the check ran the full flow: bid with nonce N, swap with nonce N + 1, two
\* receipt waits, a normal return
RanFullFlow ==
  /\ calls = FullFlowCalls
  /\ l.bidTx # Null /\ l.bidTx.nonce = l.nonce
  /\ l.swapTx # Null /\ l.swapTx.nonce = l.nonce + 1
  /\ Count("waitForTransactionReceipt") = 2
  /\ l.bidReceipt # Null /\ l.swapReceipt # Null
  /\ outcome = "Receipts logged"

\* C6 as stated: with an active funded auction, a Success quote at break-even,
\* a sufficient balance, a router and no failing call, the check ends having
\* run the full flow.
C6_Original ==
  (NoCallFailed /\ chainAuction.startTime # 0 /\ chainFunds > 0
     /\ swapEnabled /\ l.swapQuote # Null /\ l.swapQuote.status = "Success")
  =>
    /\ l.gasCosts # Null
    /\ (l.swapQuote.assumedAmountOut = CostOf(l) /\ l.balance >= CostOf(l))
         => RanFullFlow

\* C6 (amended): as C6, for a Success quote that carries a transaction
\* payload (tx); a finished check with an active funded auction and no failed
\* call has requested exactly one quote.
C6_FullFlow ==
  /\ (NoCallFailed /\ chainAuction.startTime # 0 /\ chainFunds > 0)
       => Count("getSwap") = 1
  /\ (NoCallFailed /\ chainAuction.startTime # 0 /\ chainFunds > 0
        /\ swapEnabled /\ l.swapQuote # Null
        /\ l.swapQuote.status = "Success" /\ l.swapQuote.tx)
     =>
       /\ l.gasCosts # Null
       /\ (l.swapQuote.assumedAmountOut = CostOf(l)
             /\ l.balance >= CostOf(l))
            => RanFullFlow

\* C6 witness: a break-even check has sent both transactions, awaited both
\* receipts and returned.
C6_Witness ==
  /\ NoCallFailed
  /\ swapEnabled
  /\ l.swapTx # Null
  /\ l.swapQuote.assumedAmountOut = CostOf(l)
  /\ outcome = "Receipts logged"

\* C7: while no auction is registered (startTime = 0) a check makes no call
\* beyond the two balance reads and the auction read, and a check that does
\* not throw returns after exactly these three.
C7_NoAuction ==
  chainAuction.startTime = 0 =>
    /\ IsPrefix(calls, <<"getBalance", "readContract", "auctionInfo">>)
    /\ (pc = "delay" /\ outcome # "threw") =>
         /\ calls = <<"getBalance", "readContract", "auctionInfo">>
         /\ outcome = "No active auction found"
         /\ l.swapQuote = Null /\ l.gasCosts = Null
         /\ l.bidTx = Null /\ l.swapTx = Null

\* C7 witness: a check ended on the missing auction.
C7_Witness ==
  /\ pc = "delay"
  /\ chainAuction.startTime = 0
  /\ outcome = "No active auction found"

\* C8: a quote whose status is not Success ends the check right after the
\* quote step: no gas estimate, no nonce, no transaction.
C8_QuoteNotSuccess ==
  (Count("getSwap") > 0 /\ l.swapQuote # Null
     /\ l.swapQuote.status # "Success")
  =>
    /\ pc = "delay"
    /\ outcome = "Skipping auction: swap quote status"
    /\ calls = SubSeq(FullFlowCalls, 1, 6)
    /\ l.gasCosts = Null
    /\ l.bidTx = Null /\ l.swapTx = Null

\* C8 witness: the quote service found no route for an active funded auction.
C8_Witness ==
  /\ l.swapQuote # Null
  /\ l.swapQuote.status = "NoRoute"
  /\ l.auction # Null /\ l.auction.availableFees > 0

\* C9: an auction with startTime # 0 and availableFees = 0 is returned by
\* getActiveAuction (not null); the check logs 'No available fees', not 'No
\* active auction', and ends after the four reads.
C9_NoFeesDistinct ==
  /\ (l.auction # Null /\ l.auction.availableFees = 0) =>
       /\ l.info.startTime # 0
       /\ pc = "delay"
       /\ outcome = "No available fees in auction"
       /\ calls = SubSeq(FullFlowCalls, 1, 4)
       /\ l.auctionData = Null /\ l.swapQuote = Null /\ l.gasCosts = Null
       /\ l.bidTx = Null /\ l.swapTx = Null
  /\ (pc = "delay" /\ outcome # "threw" /\ chainAuction.startTime # 0
        /\ chainFunds = 0) =>
       /\ l.auction # Null
       /\ l.auction.availableFees = 0
  /\ outcome = "No active auction found" => l.auction = Null

\* C9 witness: a check ended on an auction without fees.
C9_Witness ==
  /\ pc = "delay"
  /\ l.auction # Null
  /\ outcome = "No available fees in auction"

\* getActiveAuction has returned (it neither is at its second read nor threw)
ActiveAuctionReturned ==
  /\ l.info # Null
  /\ pc # "auctionFunds"
  /\ ~(outcome = "threw" /\ LastCall = "auctionFunds")

\* C10: getActiveAuction returns null exactly when the on-chain startTime is
\* 0, then without reading the pool balance; otherwise it returns the decay
\* parameters with the pool balance it has just read.
C10_ActiveAuction ==
  ActiveAuctionReturned =>
    /\ l.info = chainAuction
    /\ (l.auction = Null) <=> (chainAuction.startTime = 0)
    /\ chainAuction.startTime = 0 => Count("auctionFunds") = 0
    /\ chainAuction.startTime # 0 =>
         /\ Count("auctionFunds") = 1
         /\ l.auction.startPrice = chainAuction.startPrice
         /\ l.auction.startTime = chainAuction.startTime
         /\ l.auction.availableFees = chainFunds

\* C10 witness: getActiveAuction returned an auction with fees.
C10_Witness ==
  /\ ActiveAuctionReturned
  /\ l.auction # Null
  /\ l.auction.availableFees > 0

\* the bot under fair scheduling: a pending timer fires and the loop, once
\* idle, makes its next call; the chain client answers every request
SpecFair ==
  /\ Spec
  /\ WF_vars(Delay)
  /\ WF_vars(StartCheck)

\* ------------------------------------------------------ the bot startup
\* The bot awaits initializeConfig(process.env) before its loop; an exception
\* there is not caught by the loop and ends the process.  During startup l
\* holds the environment.

\* PRIVATE_KEY of the environment: not set, set to the empty string, or a key
PrivateKeys == {"undefined", "", "0xkey"}

\* what getChainId can answer: mainnet, calibration, or another chain
ChainIds == {314, 314159, 1}

\* initializeConfig's test of PRIVATE_KEY
HasPrivateKeyAlways(env) == TRUE

HasPrivateKey(env) == env.PRIVATE_KEY \notin {"undefined", ""}

\* getUsdfcAddress knows the chain
SupportedChain(chainId) == chainId \in {314, 314159}

PrivateKeyRequired == "Error: PRIVATE_KEY environment variable is required"

InitStartup ==
  /\ pc = "initializeConfig"
  /\ sushiswapRouterAddress \in RouterAddresses
  /\ walletFil \in 0..MaxBalance
  /\ walletUsdfc \in 0..MaxTokens
  /\ chainAuction \in [startPrice : 0..MaxPrice, startTime : 0..1]
  /\ chainFunds \in 0..MaxFees
  /\ txCount = 0
  /\ mempool = {}
  /\ receipts = {}
  /\ l \in [env : [PRIVATE_KEY : PrivateKeys]]
  /\ calls = <<>>
  /\ outcome = "none"

\* the process ends with an uncaught error
Exit(message) == pc' = "exit" /\ outcome' = message

\* initializeConfig up to its first await
InitializeConfig ==
  /\ pc = "initializeConfig"
  /\ IF ~HasPrivateKey(l.env)
     THEN Exit(PrivateKeyRequired)
     ELSE pc' = "getChainId" /\ UNCHANGED outcome
  /\ UNCHANGED <<sushiswapRouterAddress, chainVars, l, calls>>

\* getChainId, getUsdfcAddress and createClient; then the loop is entered
GetChainId ==
  /\ pc = "getChainId"
  /\ \E ok \in BOOLEAN, chainId \in ChainIds :
       IF ~ok \/ ~SupportedChain(chainId)
       THEN /\ Exit("threw")
            /\ calls' = Append(calls, "getChainId")
            /\ UNCHANGED l
       ELSE /\ pc' = "loop"
            /\ l' = NoLocals
            /\ calls' = <<>>
            /\ UNCHANGED outcome
  /\ UNCHANGED <<sushiswapRouterAddress, chainVars>>

NextStartup ==
  \/ InitializeConfig
  \/ GetChainId
  \/ Next

SpecStartup == InitStartup /\ [][NextStartup]_vars

\* ------------------------------------------------ calculateCurrentPrice
\* The auction price halves every HALVING_INTERVAL seconds and decays
\* linearly in between.  The function reads the clock; here the clock value
\* is its third argument.  Here l holds the arguments, the clock, the price
\* returned, and the clock and price of the evaluation before.

HALVING_INTERVAL == 302400

RECURSIVE GCD(_, _)
GCD(a, b) == IF b = 0 THEN a ELSE GCD(b, a % b)

\* (a * b) / c in BigInt arithmetic, which is unbounded; the common factor of
\* b and c is cancelled first so that the product stays within TLC's
\* integers, which changes nothing of the quotient
MulDiv(a, b, c) == LET g == GCD(b, c) IN (a * (b \div g)) \div (c \div g)

\* the halving loop: price after n halvings, and whether the loop returned 0
HalveOnce(price, n) ==
  IF n = 0 THEN [price |-> price, returned |-> FALSE]
  ELSE [price |-> price \div 2, returned |-> price \div 2 = 0]

RECURSIVE Halve(_, _)
Halve(price, n) ==
  IF n = 0 THEN [price |-> price, returned |-> FALSE]
  ELSE LET half == price \div 2 IN
       IF half = 0 THEN [price |-> 0, returned |-> TRUE]
       ELSE Halve(half, n - 1)

calculateCurrentPriceEitherSide(startPrice, startTime, now) ==
  LET elapsed == IF now < startTime THEN startTime - now ELSE now - startTime
      numHalvings == elapsed \div HALVING_INTERVAL
      halved == Halve(startPrice, numHalvings)
      remainder == elapsed % HALVING_INTERVAL
      fractionDecay == MulDiv(remainder, 1000000, HALVING_INTERVAL)
      decayMultiplier == 1000000 - fractionDecay \div 2
  IN IF halved.returned THEN 0
     ELSE IF remainder > 0
     THEN (halved.price * decayMultiplier) \div 1000000
     ELSE halved.price

calculateCurrentPriceFullDecay(startPrice, startTime, now) ==
  LET elapsed == now - startTime
      numHalvings == elapsed \div HALVING_INTERVAL
      halved == Halve(startPrice, numHalvings)
      remainder == elapsed % HALVING_INTERVAL
      fractionDecay == MulDiv(remainder, 1000000, HALVING_INTERVAL)
      decayMultiplier == 1000000 - fractionDecay
  IN IF elapsed <= 0 THEN startPrice
     ELSE IF halved.returned THEN 0
     ELSE IF remainder > 0
     THEN (halved.price * decayMultiplier) \div 1000000
     ELSE halved.price

calculateCurrentPrice(startPrice, startTime, now) ==
  LET elapsed == now - startTime
      numHalvings == elapsed \div HALVING_INTERVAL
      halved == Halve(startPrice, numHalvings)
      remainder == elapsed % HALVING_INTERVAL
      fractionDecay == MulDiv(remainder, 1000000, HALVING_INTERVAL)
      decayMultiplier == 1000000 - fractionDecay \div 2
  IN IF elapsed <= 0 THEN startPrice
     ELSE IF halved.returned THEN 0
     ELSE IF remainder > 0
     THEN (halved.price * decayMultiplier) \div 1000000
     ELSE halved.price

\* the elapsed times looked at: around the start, around every halving
\* boundary, and at the slices of every interval
ElapsedTimes ==
  {k * HALVING_INTERVAL + d :
     k \in 0..MaxHalvings, d \in (0 - MaxOffset)..MaxOffset}
    \cup {k * HALVING_INTERVAL + (j * HALVING_INTERVAL) \div MaxSlices :
            k \in 0..MaxHalvings, j \in 1..(MaxSlices - 1)}

InitPrice ==
  /\ pc = "price"
  /\ sushiswapRouterAddress = "null"
  /\ walletFil = 0
  /\ walletUsdfc = 0
  /\ chainAuction = [startPrice |-> 0, startTime |-> 0]
  /\ chainFunds = 0
  /\ txCount = 0
  /\ mempool = {}
  /\ receipts = {}
  /\ \E startPrice \in 0..MaxStartPrice, startTime \in 1..2 :
       l = [startPrice |-> startPrice, startTime |-> startTime,
            now |-> Null, price |-> Null,
            nowBefore |-> Null, priceBefore |-> Null]
  /\ calls = <<>>
  /\ outcome = "none"

\* the clock has moved on (or not) and calculateCurrentPrice is called again
\* for the same auction
CalculateCurrentPrice ==
  /\ pc = "price"
  /\ \E e \in ElapsedTimes :
       LET now == l.startTime + e IN
       /\ IF l.now = Null THEN TRUE ELSE l.now.at <= now
       /\ l' = [l EXCEPT
                  !.now = [at |-> now],
                  !.price = [is |-> calculateCurrentPrice(l.startPrice,
                                                          l.startTime, now)],
                  !.nowBefore = l.now,
                  !.priceBefore = l.price]
  /\ UNCHANGED <<pc, sushiswapRouterAddress, chainVars, calls, outcome>>

NextPrice == CalculateCurrentPrice

SpecPrice == InitPrice /\ [][NextPrice]_vars

\* ------------------------------------------ selectFirstAvailableAuction
\* The legacy multi-token bot reads the auctions of its tokens into a list
\* and bids on the one selectFirstAvailableAuction picks.  Here l holds the
\* list and what was selected from it.

\* an auction of the list
Auctions ==
  [token : {"tokenA", "tokenB"}, startPrice : {MaxPrice}, startTime : {1},
   availableFees : 0..MaxFees]

\* every list of at most MaxAuctions auctions
AuctionLists ==
  UNION {[1..n -> Auctions] : n \in 0..MaxAuctions}

selectFirstAuction(auctions) ==
  IF auctions = <<>> THEN Null ELSE auctions[1]

\* Array.prototype.find from position i on; undefined becomes null
RECURSIVE Find(_, _)
Find(auctions, i) ==
  IF i > Len(auctions) THEN Null
  ELSE IF auctions[i].availableFees > 0 THEN auctions[i]
  ELSE Find(auctions, i + 1)

selectFirstAvailableAuction(auctions) == Find(auctions, 1)

InitSelect ==
  /\ pc = "select"
  /\ sushiswapRouterAddress = "null"
  /\ walletFil = 0
  /\ walletUsdfc = 0
  /\ chainAuction = [startPrice |-> 0, startTime |-> 0]
  /\ chainFunds = 0
  /\ txCount = 0
  /\ mempool = {}
  /\ receipts = {}
  /\ \E auctions \in AuctionLists :
       l = [auctions |-> auctions, selected |-> [pending |-> TRUE]]
  /\ calls = <<>>
  /\ outcome = "none"

SelectFirstAvailableAuction ==
  /\ pc = "select"
  /\ l.selected = [pending |-> TRUE]
  /\ pc' = "selected"
  /\ l' = [l EXCEPT !.selected = selectFirstAvailableAuction(l.auctions)]
  /\ UNCHANGED <<sushiswapRouterAddress, chainVars, calls, outcome>>

NextSelect == SelectFirstAvailableAuction

SpecSelect == InitSelect /\ [][NextSelect]_vars

\* -------------------------------------------------------- ensureApproval
\* At startup the bot makes sure the router may spend the wallet's USDFC.
\* Here l holds the allowance on the chain, the locals of ensureApproval and
\* what the call before returned; the bot may be started again.

\* viem's maxUint256, the largest allowance there is
maxUint256 == MaxAllowance

\* ensureApproval's test of the allowance it read
AllowanceIsPositive(currentAllowance) == currentAllowance > 0

AlreadyApproved(currentAllowance) == currentAllowance = maxUint256

\* the request simulateContract is called with and hands back
ApproveRequest(tokenAddress, spenderAddress) ==
  [functionName |-> "approve", token |-> tokenAddress,
   spender |-> spenderAddress, amount |-> maxUint256]

\* ensureApproval has not returned yet
Pending == [pending |-> TRUE]

ApprovalLocals(allowance, before) ==
  [allowance |-> allowance, currentAllowance |-> Null, request |-> Null,
   hash |-> Null, result |-> Pending, resultBefore |-> before]

InitApproval ==
  /\ pc = "approval.readContract"
  /\ sushiswapRouterAddress = "router"
  /\ walletFil = 0
  /\ walletUsdfc = 0
  /\ chainAuction = [startPrice |-> 0, startTime |-> 0]
  /\ chainFunds = 0
  /\ txCount = 0
  /\ mempool = {}
  /\ receipts = {}
  /\ \E allowance \in 0..maxUint256 : l = ApprovalLocals(allowance, Pending)
  /\ calls = <<>>
  /\ outcome = "none"

ApprovalUnchanged ==
  UNCHANGED <<sushiswapRouterAddress, walletFil, walletUsdfc, chainAuction,
              chainFunds, txCount>>

\* ensureApproval reads the allowance; at the maximum it returns null
ApprovalReadContract ==
  /\ pc = "approval.readContract"
  /\ calls' = Append(calls, "readContract")
  /\ \E ok \in BOOLEAN :
       IF ~ok THEN Exit("threw") /\ UNCHANGED l
       ELSE IF AlreadyApproved(l.allowance)
       THEN /\ l' = [l EXCEPT !.currentAllowance = [is |-> l.allowance],
                              !.result = Null]
            /\ pc' = "approval.done"
            /\ outcome' = "USDFC already approved"
       ELSE /\ l' = [l EXCEPT !.currentAllowance = [is |-> l.allowance]]
            /\ pc' = "approval.simulateContract"
            /\ UNCHANGED outcome
  /\ UNCHANGED <<mempool, receipts>>
  /\ ApprovalUnchanged

\* ensureApproval simulates approve(spender, maxUint256)
ApprovalSimulateContract ==
  /\ pc = "approval.simulateContract"
  /\ calls' = Append(calls, "simulateContract")
  /\ \E ok \in BOOLEAN :
       IF ~ok THEN Exit("threw") /\ UNCHANGED l
       ELSE /\ l' = [l EXCEPT !.request =
                       ApproveRequest("usdfc", sushiswapRouterAddress)]
            /\ pc' = "approval.writeContract"
            /\ UNCHANGED outcome
  /\ UNCHANGED <<mempool, receipts>>
  /\ ApprovalUnchanged

\* ensureApproval sends the request and asks for the receipt of its hash
ApprovalWriteContract ==
  /\ pc = "approval.writeContract"
  /\ \E ok \in BOOLEAN :
       IF ~ok
       THEN /\ Exit("threw")
            /\ calls' = Append(calls, "writeContract")
            /\ UNCHANGED <<l, mempool>>
       ELSE /\ l' = [l EXCEPT !.hash = Hash("approve", txCount)]
            /\ mempool' = mempool \cup {[hash |-> Hash("approve", txCount),
                                         request |-> l.request]}
            /\ calls' = calls \o <<"writeContract",
                                   "waitForTransactionReceipt">>
            /\ pc' = "approval.receipt"
            /\ UNCHANGED outcome
  /\ UNCHANGED receipts
  /\ ApprovalUnchanged

\* the chain mines the approval: a successful approve sets the allowance
ApprovalMine ==
  /\ \E t \in mempool, status \in {"success", "reverted"} :
       /\ mempool' = mempool \ {t}
       /\ receipts' = receipts \cup {[tx |-> t.hash, status |-> status]}
       /\ l' = IF status = "success"
               THEN [l EXCEPT !.allowance = t.request.amount]
               ELSE l
  /\ UNCHANGED <<pc, calls, outcome>>
  /\ ApprovalUnchanged

\* the wait resolves with the receipt, which ensureApproval returns, or rejects
ApprovalReceipt ==
  /\ pc = "approval.receipt"
  /\ \/ Exit("threw") /\ UNCHANGED l
     \/ \E r \in receipts :
          /\ r.tx = l.hash
          /\ l' = [l EXCEPT !.result = [status |-> r.status]]
          /\ pc' = "approval.done"
          /\ outcome' = "Approval successful"
  /\ UNCHANGED <<mempool, receipts, calls>>
  /\ ApprovalUnchanged

\* the bot is started again and calls ensureApproval again
ApprovalAgain ==
  /\ pc = "approval.done"
  /\ mempool = {}
  /\ pc' = "approval.readContract"
  /\ l' = ApprovalLocals(l.allowance, l.result)
  /\ calls' = <<>>
  /\ outcome' = "none"
  /\ receipts' = {}
  /\ UNCHANGED mempool
  /\ ApprovalUnchanged

\* between two starts the owner may set another allowance
AllowanceChange ==
  /\ pc = "approval.done"
  /\ \E allowance \in 0..maxUint256 : l' = [l EXCEPT !.allowance = allowance]
  /\ UNCHANGED <<pc, mempool, receipts, calls, outcome>>
  /\ ApprovalUnchanged

NextApproval ==
  \/ ApprovalReadContract
  \/ ApprovalSimulateContract
  \/ ApprovalWriteContract
  \/ ApprovalMine
  \/ ApprovalReceipt
  \/ ApprovalAgain
  \/ AllowanceChange

SpecApproval == InitApproval /\ [][NextApproval]_vars

\* ------------------------------------------------ the stats reporter
\* The stats loop calls collectAndUpdateStats, which reads the same auction
\* through getActiveAuction and asks getSwapQuote for a quote on the whole
\* fee pool, empty or not.  Here l holds the three gauges of the registry
\* and the locals of collectAndUpdateStats.

\* the bits it takes to write n
RECURSIVE BitLength(_)
BitLength(n) == IF n = 0 THEN 0 ELSE 1 + BitLength(n \div 2)

\* the integers from which on a number no longer holds every integer
\* (2^53 for a double)
MaxSafe == 2 ^ MantissaBits

NumberExact(n) == n

\* Number(bigint): the nearest number with MantissaBits significant bits,
\* ties going to the even mantissa
Number(n) ==
  IF n < MaxSafe THEN n
  ELSE LET unit == 2 ^ (BitLength(n) - MantissaBits)
           q == n \div unit
           r == n % unit
       IN IF 2 * r < unit THEN q * unit
          ELSE IF 2 * r > unit THEN (q + 1) * unit
          ELSE IF q % 2 = 0 THEN q * unit
          ELSE (q + 1) * unit

\* the fee pools the reporter meets: up to the first integer that a number
\* does not hold
StatsFunds == 0..(MaxSafe + 1)

\* the gauges and locals before anything was recorded
StatsInit ==
  [poolBalanceGauge |-> Null, auctionPriceGauge |-> Null,
   swapAmountOutGauge |-> Null, auction |-> Null, auctionPrice |-> Null,
   quoted |-> FALSE, swapQuote |-> Null]

InitStats ==
  /\ pc = "stats.loop"
  /\ sushiswapRouterAddress = "null"
  /\ walletFil = 0
  /\ walletUsdfc = 0
  /\ chainAuction \in [startPrice : 0..MaxPrice, startTime : 0..1]
  /\ chainFunds \in StatsFunds
  /\ txCount = 0
  /\ mempool = {}
  /\ receipts = {}
  /\ l = StatsInit
  /\ calls = <<>>
  /\ outcome = "none"

StatsUnchanged ==
  UNCHANGED <<sushiswapRouterAddress, chainVars>>

\* collectAndUpdateStats returns, or throws into the catch of the stats loop
StatsFinish(o) == pc' = "stats.wait" /\ outcome' = o

StatsThrow == StatsFinish("threw")

\* the stats loop calls collectAndUpdateStats; the gauges keep their values
StatsStart ==
  /\ pc = "stats.loop"
  /\ pc' = "stats.auctionInfo"
  /\ l' = [l EXCEPT !.auction = Null, !.auctionPrice = Null,
                    !.quoted = FALSE, !.swapQuote = Null]
  /\ calls' = <<>>
  /\ outcome' = "none"
  /\ StatsUnchanged

\* getActiveAuction, first read; without an auction the gauges are zeroed
StatsAuctionInfo ==
  /\ pc = "stats.auctionInfo"
  /\ calls' = Append(calls, "auctionInfo")
  /\ \E ok \in BOOLEAN :
       IF ~ok THEN StatsThrow /\ UNCHANGED l
       ELSE IF IsNoAuction(chainAuction)
       THEN /\ l' = [l EXCEPT !.poolBalanceGauge = 0,
                              !.auctionPriceGauge = 0,
                              !.swapAmountOutGauge = 0]
            /\ StatsFinish("No active auction - recorded zeros")
       ELSE /\ l' = [l EXCEPT !.auction = chainAuction]
            /\ pc' = "stats.auctionFunds"
            /\ UNCHANGED outcome
  /\ StatsUnchanged

\* getActiveAuction, second read
StatsAuctionFunds ==
  /\ pc = "stats.auctionFunds"
  /\ calls' = Append(calls, "auctionFunds")
  /\ \E ok \in BOOLEAN :
       IF ~ok THEN StatsThrow /\ UNCHANGED l
       ELSE /\ l' = [l EXCEPT
                 !.auction = getActiveAuctionResult(l.auction, chainFunds)]
            /\ pc' = "stats.getBlock"
            /\ UNCHANGED outcome
  /\ StatsUnchanged

\* getBlock and auctionPriceAt: some price between 0 and startPrice
StatsGetBlock ==
  /\ pc = "stats.getBlock"
  /\ calls' = Append(calls, "getBlock")
  /\ \E ok \in BOOLEAN, price \in 0..l.auction.startPrice :
       IF ~ok THEN StatsThrow /\ UNCHANGED l
       ELSE /\ l' = [l EXCEPT !.auctionPrice = price]
            /\ pc' = "stats.getSwapQuote"
            /\ UNCHANGED outcome
  /\ StatsUnchanged

\* getSwapQuote for the fee pool, then the three gauges
StatsGetSwapQuote ==
  /\ pc = "stats.getSwapQuote"
  /\ \E a \in QuoteAnswers :
       LET r == getSwapQuote(l.auction.availableFees, a.thrown, a.response)
           swapAmountOut == IF QuoteIsSuccess(r.quote)
                            THEN r.quote.assumedAmountOut ELSE 0
       IN
       /\ calls' = IF r.called THEN Append(calls, "getSwap") ELSE calls
       /\ IF r.threw THEN StatsThrow /\ l' = [l EXCEPT !.quoted = TRUE]
          ELSE /\ l' = [l EXCEPT
                    !.quoted = TRUE,
                    !.swapQuote = r.quote,
                    !.poolBalanceGauge = Number(l.auction.availableFees),
                    !.auctionPriceGauge = Number(l.auctionPrice),
                    !.swapAmountOutGauge = Number(swapAmountOut)]
               /\ StatsFinish("Stats recorded")
  /\ StatsUnchanged

\* the stats loop sleeps for config.interval
StatsWait ==
  /\ pc = "stats.wait"
  /\ pc' = "stats.loop"
  /\ UNCHANGED <<l, calls, outcome>>
  /\ StatsUnchanged

\* the auction changes on the chain between two collections
StatsChainChange ==
  /\ pc = "stats.loop"
  /\ \/ chainAuction' \in [startPrice : 0..MaxPrice, startTime : 0..1]
        /\ UNCHANGED chainFunds
     \/ chainFunds' \in StatsFunds
        /\ UNCHANGED chainAuction
  /\ UNCHANGED <<pc, sushiswapRouterAddress, walletFil, walletUsdfc, txCount,
                 mempool, receipts, l, calls, outcome>>

NextStats ==
  \/ StatsStart
  \/ StatsAuctionInfo
  \/ StatsAuctionFunds
  \/ StatsGetBlock
  \/ StatsGetSwapQuote
  \/ StatsWait
  \/ StatsChainChange

SpecStats == InitStats /\ [][NextStats]_vars

\* ------------------------------------- the dependency-injected variant
\* The processAuctions of src/index.js differs from the one above in two
\* steps: it reads swapQuote.status without guarding against null, and its
\* estimateGasCosts awaits the three chain calls without catching.

\* the gate on the quote: reading status of null raises a TypeError
QuoteGatePassesPartial(q) ==
  IF q = Null THEN "TypeError"
  ELSE IF q.status \notin {"Success", "Partial"} THEN "skip"
  ELSE "pass"

QuoteGateInjected(q) ==
  IF q = Null THEN "TypeError"
  ELSE IF q.status # "Success" THEN "skip"
  ELSE "pass"

GetSwapQuoteInjected ==
  /\ pc = "getSwapQuote"
  /\ \E a \in QuoteAnswers :
       LET r == getSwapQuote(l.totalSwapAmount, a.thrown, a.response)
           gate == QuoteGateInjected(r.quote)
       IN
       /\ calls' = IF r.called THEN Append(calls, "getSwap") ELSE calls
       /\ IF r.threw THEN Throw /\ UNCHANGED l
          ELSE /\ l' = [l EXCEPT !.swapQuote = r.quote]
               /\ IF gate = "TypeError" THEN Throw
                  ELSE IF gate = "skip"
                  THEN Finish("Skipping auction: swap quote status")
                  ELSE pc' = "estimateGasCosts" /\ UNCHANGED outcome
  /\ UNCHANGED <<sushiswapRouterAddress, chainVars>>

\* estimateGasCosts without estimateBidGas and estimateSwapGas: a failing
\* estimate (0) rejects the Promise.all, and nothing is ever returned as null
EstimateGasCostsInjected ==
  /\ pc = "estimateGasCosts"
  /\ calls' = calls \o EstimateCalls(l.swapQuote)
  /\ \E bid \in 0..MaxGas, swap \in 0..MaxGas,
        priceOk \in BOOLEAN, gasPrice \in 1..MaxGasPrice :
       LET swapAsked == swapEnabled /\ l.swapQuote.tx
           request == EstimateRequest(l.auction, l.auctionData)
           failed == (IF bid = 0 THEN {"bid"} ELSE {})
                       \cup (IF swapAsked /\ swap = 0 THEN {"swap"} ELSE {})
           costs == [bidGasCost |-> gasPrice * bid,
                     swapGasCost |-> gasPrice * swap]
           p == checkProfitability(l.auctionData.auctionPrice,
                                   costs.bidGasCost, costs.swapGasCost,
                                   l.swapQuote.assumedAmountOut)
       IN
       /\ swapAsked \/ swap = 0
       /\ IF ~priceOk \/ failed # {}
          THEN Throw /\ l' = [l EXCEPT !.estimateFailed = failed,
                                       !.estRequest = request]
          ELSE /\ l' = [l EXCEPT !.estRequest = request,
                                 !.gasCosts = costs, !.profit = p]
               /\ IF ~p.isProfitable
                  THEN Finish("Auction not profitable")
                  ELSE IF ~BalanceSufficient(l.balance, p.totalCost)
                  THEN Finish("Insufficient balance")
                  ELSE pc' = "getTransactionCount" /\ UNCHANGED outcome
  /\ UNCHANGED <<sushiswapRouterAddress, chainVars>>

NextInjected ==
  \/ StartCheck
  \/ GetBalance
  \/ GetTokenBalance
  \/ AuctionInfo
  \/ AuctionFunds
  \/ GetBlock
  \/ GetSwapQuoteInjected
  \/ EstimateGasCostsInjected
  \/ GetTransactionCount
  \/ SimulateContract
  \/ WriteContract
  \/ SendTransaction
  \/ ResolveReceipt
  \/ Mine
  \/ Delay
  \/ ChainChange

SpecInjected == Init /\ [][NextInjected]_vars

C13_ZeroAmountRejects ==
  (l.quoted /\ l.auction.availableFees = 0) => outcome = "threw"

\* C14: when getSwapQuote returns null, processAuctions treats it like a
\* quote that is not Success, in the dependency-injected variant too: the
\* check ends with the skip line, not in the catch, having estimated no gas
\* and submitted nothing.
C14_NullQuoteSkips ==
  (pc = "delay" /\ Count("getSwap") = 1 /\ l.swapQuote = Null) =>
    /\ outcome = "Skipping auction: swap quote status"
    /\ Count("estimateContractGas") = 0
    /\ Count("writeContract") = 0
    /\ Count("sendTransaction") = 0

\* C15: checks never overlap: processAuctions is called only by the idle
\* loop, which holds nothing of an earlier call; the loop is idle again only
\* once the delay has elapsed, and the delay begins only when the call that
\* was running returned or threw.
C15_NoOverlap ==
  [][/\ (pc' # pc /\ pc' = "getBalance") =>
          pc = "loop" /\ calls = <<>> /\ outcome = "none" /\ l = NoLocals
     /\ (pc' # pc /\ pc' = "loop") => pc = "delay"
     /\ (pc' # pc /\ pc' = "delay") =>
          pc \notin {"loop", "delay"} /\ outcome' # "none"
     /\ (pc' # pc /\ pc = "delay") => pc' = "loop"]_vars

\* C15 witness: a check that sent a transaction has completed and its delay
\* has elapsed; the loop is idle.
C15_Witness ==
  /\ pc = "loop"
  /\ txCount > 0
  /\ calls = <<>>

\* the transactions of the check whose receipts waitForReceipts asked for
WaitedFor(loc) ==
  {k \in {"bid", "swap"} :
     /\ loc.txResult # Null
     /\ \/ k = "bid"
        \/ loc.txResult.swapHash # Null}

\* C16: an exception that leaves processAuctions is caught by the loop: the
\* check is over and the loop is in its delay; the step that failed was made
\* once, not retried; and the next check starts after the delay (as long as
\* checks start at all, i.e. the transactions sent stay below MaxNonce).
C16_ThrowCaught ==
  /\ [](outcome = "threw" =>
          /\ pc = "delay"
          /\ Count(LastCall) <=
               (IF LastCall = "waitForTransactionReceipt"
                THEN Cardinality(WaitedFor(l)) ELSE 1))
  /\ [][(outcome = "threw" /\ pc' # pc) =>
          pc' = "loop" /\ outcome' = "none"]_vars
  /\ ((outcome = "threw" /\ txCount + Cardinality(mempool) < MaxNonce)
        ~> pc = "getBalance")

\* C16 witness: a chain read of the check failed and the loop is in its delay
\* with the exception logged.
C16_Witness ==
  /\ pc = "delay"
  /\ outcome = "threw"
  /\ LastCall \in {"getBalance", "readContract", "auctionInfo",
                   "auctionFunds", "getBlock"}

\* C17: without PRIVATE_KEY initializeConfig fails with 'Error: PRIVATE_KEY
\* environment variable is required' before any network call; the process
\* ends there, and once ended it takes no further step, so no check runs.
C17_PrivateKeyRequired ==
  /\ []((pc \in {"initializeConfig", "getChainId", "exit"}
           /\ l.env.PRIVATE_KEY = "undefined") =>
          /\ pc \in {"initializeConfig", "exit"}
          /\ calls = <<>>
          /\ pc = "exit" => outcome = PrivateKeyRequired)
  /\ [][pc # "exit"]_vars

\* C17 witness: the process ended at startup for lack of PRIVATE_KEY.
C17_Witness ==
  /\ pc = "exit"
  /\ l.env.PRIVATE_KEY = "undefined"
  /\ outcome = PrivateKeyRequired
  /\ calls = <<>>

\* C18: when the bid gas estimate call fails, estimateGasCosts returns null
\* and the check ends there: no profitability was computed, no transaction
\* count was read, nothing was simulated or sent.
C18_BidEstimateFails ==
  ("bid" \in l.estimateFailed /\ outcome # "threw") =>
    /\ l.gasCosts = Null
    /\ l.profit = Null
    /\ pc = "delay"
    /\ outcome = "Skipping auction due to gas estimation failure"
    /\ LastCall = "getGasPrice"
    /\ Count("getTransactionCount") = 0
    /\ Count("writeContract") = 0
    /\ Count("sendTransaction") = 0

\* C18 witness: the bid estimate failed while the gas price was read, and the
\* check ended.
C18_Witness ==
  /\ pc = "delay"
  /\ l.estimateFailed = {"bid"}
  /\ outcome = "Skipping auction due to gas estimation failure"

\* C19: when only the swap gas estimate call fails, swapGasCost is 0 and the
\* check goes on to checkProfitability; if the auction is profitable and the
\* balance suffices it goes on to submission.
C19_SwapEstimateFails ==
  (l.estimateFailed = {"swap"} /\ outcome # "threw") =>
    /\ l.gasCosts # Null
    /\ l.gasCosts.swapGasCost = 0
    /\ l.gasCosts.bidGasCost > 0
    /\ l.profit =
         checkProfitability(l.auctionData.auctionPrice,
                            l.gasCosts.bidGasCost, 0,
                            l.swapQuote.assumedAmountOut)
    /\ outcome # "Skipping auction due to gas estimation failure"
    /\ (l.profit.isProfitable /\ l.balance >= l.profit.totalCost) =>
         pc = "getTransactionCount" \/ Count("getTransactionCount") = 1

\* C19 witness: the swap estimate failed and the bid was sent all the same.
C19_Witness ==
  /\ l.estimateFailed = {"swap"}
  /\ Count("writeContract") = 1
  /\ l.bidTx # Null

\* C20: for one startPrice and startTime, calculateCurrentPrice does not
\* increase with the time of evaluation: the price returned at a later (or
\* the same) time is at most the price returned before, across halving
\* boundaries too.
C20_PriceNonIncreasing ==
  l.priceBefore # Null =>
    /\ l.nowBefore.at <= l.now.at
    /\ l.price.is <= l.priceBefore.is

\* C20 witness: two evaluations on either side of the first halving boundary,
\* each inside the interpolation of its period, with the price having
\* dropped.
C20_Witness ==
  /\ l.priceBefore # Null
  /\ l.nowBefore.at = l.startTime + HALVING_INTERVAL - 1
  /\ l.now.at = l.startTime + HALVING_INTERVAL + 1
  /\ l.price.is < l.priceBefore.is

\* C21: evaluated at or before startTime (elapsed <= 0, a startTime in the
\* future included), calculateCurrentPrice returns startPrice unchanged.
C21_BeforeStart ==
  (l.price # Null /\ l.now.at <= l.startTime) => l.price.is = l.startPrice

\* C21 witness: an evaluation strictly before the start of a priced auction.
C21_Witness ==
  /\ l.price # Null
  /\ l.now.at < l.startTime
  /\ l.startPrice > 0
  /\ l.price.is = l.startPrice

\* the distance of x from y
Distance(x, y) == IF x < y THEN y - x ELSE x - y

\* C22: exactly one halving interval after startTime the price is
\* startPrice/2 within startPrice/100, and exactly two intervals after it is
\* startPrice/4 within startPrice/50.
C22_HalfAndQuarter ==
  l.price # Null =>
    /\ l.now.at - l.startTime = HALVING_INTERVAL =>
         Distance(l.price.is, l.startPrice \div 2) <= l.startPrice \div 100
    /\ l.now.at - l.startTime = 2 * HALVING_INTERVAL =>
         Distance(l.price.is, l.startPrice \div 4) <= l.startPrice \div 50

\* C22 witness: the price was evaluated at one interval and then at two, and
\* came out as the half and the quarter.
C22_Witness ==
  /\ l.priceBefore # Null
  /\ l.startPrice = MaxStartPrice
  /\ l.nowBefore.at - l.startTime = HALVING_INTERVAL
  /\ l.now.at - l.startTime = 2 * HALVING_INTERVAL
  /\ l.priceBefore.is = l.startPrice \div 2
  /\ l.price.is = l.startPrice \div 4

\* C23: the price is never negative and never above startPrice; once it is 0
\* it is 0 at every later evaluation; and when the halving loop reaches 0 the
\* function returns 0.
C23_PriceRange ==
  l.price # Null =>
    /\ l.price.is >= 0
    /\ l.price.is <= l.startPrice
    /\ (l.priceBefore # Null /\ l.priceBefore.is = 0) => l.price.is = 0
    /\ (l.now.at > l.startTime
          /\ Halve(l.startPrice,
                   (l.now.at - l.startTime) \div HALVING_INTERVAL).returned)
         => l.price.is = 0

\* C23 witness: the halving loop reached 0 for a priced auction, and a later
\* evaluation inside the interpolation of that period gave 0 again.
C23_Witness ==
  /\ l.priceBefore # Null
  /\ l.startPrice > 0
  /\ l.nowBefore.at > l.startTime
  /\ Halve(l.startPrice,
           (l.nowBefore.at - l.startTime) \div HALVING_INTERVAL).returned
  /\ l.priceBefore.is = 0
  /\ l.now.at > l.nowBefore.at
  /\ (l.now.at - l.startTime) % HALVING_INTERVAL > 0
  /\ l.price.is = 0

\* C24: selectFirstAvailableAuction returns the first auction of the list,
\* in list order, that has fees, and null when the list is empty or no auction
\* has fees; what it returns never has zero fees.
C24_FirstAvailable ==
  pc = "selected" =>
    LET withFees == {i \in DOMAIN l.auctions :
                       l.auctions[i].availableFees > 0}
    IN /\ withFees = {} <=> l.selected = Null
       /\ withFees # {} =>
            /\ l.selected.availableFees > 0
            /\ \E i \in withFees :
                 /\ l.selected = l.auctions[i]
                 /\ \A j \in withFees : i <= j

\* C24 witness: the first auction of the list has no fees and a later one of
\* another token was selected.
C24_Witness ==
  /\ pc = "selected"
  /\ Len(l.auctions) = MaxAuctions
  /\ l.auctions[1].availableFees = 0
  /\ l.selected # Null
  /\ l.selected = l.auctions[2]
  /\ l.selected.token # l.auctions[1].token
  /\ l.auctions[3].availableFees > 0

\* C25: ensureApproval sends nothing and returns null when the allowance it
\* read is maxUint256; otherwise it simulates and sends one
\* approve(spender, maxUint256) and waits for its receipt, which it returns.
\* So a call after a successful approval, the allowance still at the
\* maximum, sends nothing.
C25_EnsureApproval ==
  /\ Count("writeContract") <= 1
  /\ pc = "approval.done" =>
       IF l.currentAllowance.is = maxUint256
       THEN /\ l.result = Null
            /\ calls = <<"readContract">>
       ELSE /\ calls = <<"readContract", "simulateContract", "writeContract",
                         "waitForTransactionReceipt">>
            /\ l.request = ApproveRequest("usdfc", sushiswapRouterAddress)
            /\ l.request.amount = maxUint256
            /\ l.result \in [status : {"success", "reverted"}]
  /\ (pc = "approval.done"
        /\ l.resultBefore = [status |-> "success"]
        /\ l.currentAllowance.is = maxUint256) =>
       Count("simulateContract") = 0 /\ Count("writeContract") = 0

\* C25 witness: the call before approved successfully, and this call read the
\* maximum and returned null after that one read.
C25_Witness ==
  /\ pc = "approval.done"
  /\ l.resultBefore = [status |-> "success"]
  /\ l.currentAllowance.is = maxUint256
  /\ l.result = Null
  /\ calls = <<"readContract">>

\* what the swap-amount-out gauge is to show for a quote
QuotedOut(q) ==
  IF q # Null /\ q.status = "Success" THEN q.assumedAmountOut ELSE 0

\* a collection without an active auction zeroes the three gauges and asks
\* for no quote
NoAuctionZeroes ==
  outcome = "No active auction - recorded zeros" =>
    /\ l.poolBalanceGauge = 0
    /\ l.auctionPriceGauge = 0
    /\ l.swapAmountOutGauge = 0
    /\ Count("getSwap") = 0
    /\ ~l.quoted

\* C26 as stated: without an active auction the three gauges are 0 and no
\* quote is requested; with one, pool balance is availableFees and swap amount
\* out is the assumedAmountOut of a Success quote and 0 for a null quote or
\* any other status.
C26_Original ==
  /\ NoAuctionZeroes
  /\ outcome = "Stats recorded" =>
       /\ l.poolBalanceGauge = l.auction.availableFees
       /\ l.swapAmountOutGauge = QuotedOut(l.swapQuote)

\* C26 amended: the gauges hold numbers, so pool balance is availableFees
\* rounded to the nearest number: equal to it up to MaxSafe, a multiple of the
\* rounding unit and within half a unit of it beyond.
C26_Stats ==
  /\ NoAuctionZeroes
  /\ outcome = "Stats recorded" =>
       LET fees == l.auction.availableFees
           unit == IF fees < MaxSafe THEN 1
                   ELSE 2 ^ (BitLength(fees) - MantissaBits)
       IN /\ fees <= MaxSafe => l.poolBalanceGauge = fees
          /\ l.poolBalanceGauge % unit = 0
          /\ 2 * Distance(l.poolBalanceGauge, fees) <= unit
          /\ QuotedOut(l.swapQuote) <= MaxSafe =>
               l.swapAmountOutGauge = QuotedOut(l.swapQuote)

\* C26 witness: a pool one above MaxSafe was recorded as MaxSafe, next to the
\* amount of a Success quote.
C26_Witness ==
  /\ outcome = "Stats recorded"
  /\ l.auction.availableFees = MaxSafe + 1
  /\ l.poolBalanceGauge = MaxSafe
  /\ l.swapQuote # Null
  /\ l.swapQuote.status = "Success"
  /\ l.swapQuote.assumedAmountOut > 0
  /\ l.swapAmountOutGauge = l.swapQuote.assumedAmountOut

\* the positions of a call among the calls of the check
Positions(call) == {i \in DOMAIN calls : calls[i] = call}

\* C27: the swap is sent only after the bid was simulated and sent, and
\* before any receipt is waited for; no wait is issued before the last
\* transaction of the check is sent, and the waits of the check are issued
\* in one step, one for each transaction sent.
C27_SendThenWait ==
  /\ \A i \in Positions("sendTransaction") :
       /\ \E j \in Positions("writeContract") :
            /\ j < i
            /\ \E k \in Positions("simulateContract") : k < j
       /\ \A j \in Positions("waitForTransactionReceipt") : i < j
       /\ l.bidTx # Null
  /\ \A i \in Positions("waitForTransactionReceipt") :
       /\ \A j \in Positions("writeContract") : j < i
       /\ \A j \in i..Len(calls) : calls[j] = "waitForTransactionReceipt"
  /\ Count("waitForTransactionReceipt") = Cardinality(WaitedFor(l))
  /\ (l.swapTx # Null /\ outcome # "Transaction submission failed") <=>
       Count("waitForTransactionReceipt") = 2
  /\ (l.bidReceipt # Null \/ l.swapReceipt # Null) =>
       Count("waitForTransactionReceipt") = Cardinality(WaitedFor(l))

\* C27 witness: bid and swap are both sent and neither is mined, and both
\* waits are issued with nothing resolved yet.
C27_Witness ==
  /\ pc = "receipts"
  /\ l.waits = {"bid", "swap"}
  /\ l.bidReceipt = Null
  /\ l.swapReceipt = Null
  /\ l.txResult.bidHash \in mempool
  /\ l.txResult.swapHash \in mempool
  /\ Count("waitForTransactionReceipt") = 2

\* the steps of a check, in the order processAuctions takes them
FixedOrder ==
  <<"native balance read", "held-token balance read", "auction read",
    "block read", "quote request", "gas estimation", "nonce fetch",
    "bid send", "swap send", "receipt waits">>

\* the step an external call belongs to
StepOf(call) ==
  CASE call = "getBalance" -> "native balance read"
    [] call = "readContract" -> "held-token balance read"
    [] call \in {"auctionInfo", "auctionFunds"} -> "auction read"
    [] call = "getBlock" -> "block read"
    [] call = "getSwap" -> "quote request"
    [] call \in {"estimateContractGas", "estimateGas", "getGasPrice"} ->
         "gas estimation"
    [] call = "getTransactionCount" -> "nonce fetch"
    [] call \in {"simulateContract", "writeContract"} -> "bid send"
    [] call = "sendTransaction" -> "swap send"
    [] call = "waitForTransactionReceipt" -> "receipt waits"

\* the steps a sequence of calls goes through, each run of calls of one step
\* counted once
RECURSIVE StepsOf(_)
StepsOf(cs) ==
  IF cs = <<>> THEN <<>>
  ELSE LET rest == StepsOf(Tail(cs))
           step == StepOf(Head(cs))
       IN IF rest # <<>> /\ Head(rest) = step THEN rest
          ELSE <<step>> \o rest

\* s without its element at position i
Without(s, i) == SubSeq(s, 1, i - 1) \o SubSeq(s, i + 1, Len(s))

\* no call is made twice, but for the two receipt waits; one bid and one swap
\* at most
NoStepTwice ==
  /\ \A i, j \in DOMAIN calls :
       (i # j /\ calls[i] = calls[j]) =>
         calls[i] = "waitForTransactionReceipt"
  /\ Count("waitForTransactionReceipt") <= 2
  /\ Count("writeContract") <= 1
  /\ Count("sendTransaction") <= 1

\* C28 as stated: the steps of a check are a prefix of the fixed order, and
\* no step is taken twice.
C28_Original ==
  /\ IsPrefix(StepsOf(calls), FixedOrder)
  /\ NoStepTwice

\* C28 amended: the steps of a check are a prefix of the fixed order, or of
\* the fixed order without the swap send when no swap is due (no router, or a
\* quote without transaction); no step is taken twice.
C28_FixedOrder ==
  /\ \/ IsPrefix(StepsOf(calls), FixedOrder)
     \/ /\ IsPrefix(StepsOf(calls), Without(FixedOrder, 9))
        /\ ~(swapEnabled /\ l.swapQuote.tx)
  /\ (Count("sendTransaction") = 1) => (swapEnabled /\ l.swapQuote.tx)
  /\ NoStepTwice

\* C28 witness: a check without a swap due went from the bid send to the
\* receipt wait and ended.
C28_Witness ==
  /\ pc = "delay"
  /\ outcome = "Receipts logged"
  /\ StepsOf(calls) = Without(FixedOrder, 9)
  /\ ~swapEnabled

\* some receipt of the check has a status other than success
SomeReceiptFailed(loc) ==
  \/ loc.bidReceipt # Null /\ loc.bidReceipt.status # "success"
  \/ loc.swapReceipt # Null /\ loc.swapReceipt.status # "success"

\* C29: when a receipt of the check has a status other than success and all
\* awaited receipts are there, the check has ended normally ("Receipts
\* logged", not thrown), its last call is the receipt wait, and it has sent
\* one bid and at most one swap; the step that takes the last receipt makes
\* no call and adds nothing to the mempool.
C29_FailedReceiptLogged ==
  (/\ l.txResult # Null
   /\ l.waits = {}
   /\ SomeReceiptFailed(l)) =>
    /\ pc = "delay"
    /\ outcome = "Receipts logged"
    /\ LastCall = "waitForTransactionReceipt"
    /\ Count("writeContract") = 1
    /\ Count("sendTransaction") = Cardinality(WaitedFor(l)) - 1
    /\ \A t \in mempool : t.nonce > l.nonce + Cardinality(WaitedFor(l)) - 1

\* C29 witness: a check ended after its bid succeeded and its swap reverted.
C29_Witness ==
  /\ pc = "delay"
  /\ l.waits = {}
  /\ l.bidReceipt = [status |-> "success"]
  /\ l.swapReceipt = [status |-> "reverted"]
  /\ outcome = "Receipts logged"

\* C30: the quote of a check is asked for the tokens the wallet holds plus
\* the auction's available fees, and for a positive amount; the bid that is
\* simulated, written and sent asks for the available fees alone.
C30_QuoteAndBidAmounts ==
  /\ Count("getSwap") = 1 =>
       /\ l.existingUsdfcBalance = walletUsdfc
       /\ l.auction.availableFees = chainFunds
       /\ l.totalSwapAmount = walletUsdfc + chainFunds
       /\ l.totalSwapAmount > 0
  /\ l.simRequest # Null => l.simRequest.amount = l.auction.availableFees
  /\ l.bidTx # Null =>
       /\ l.bidTx.amount = l.auction.availableFees
       /\ l.bidTx.amount < l.totalSwapAmount <=> l.existingUsdfcBalance > 0

\* C30 witness: a wallet that held tokens has written a bid for the available
\* fees after a quote for more than the fees.
C30_Witness ==
  /\ l.bidTx # Null
  /\ l.existingUsdfcBalance = MaxTokens
  /\ l.bidTx.amount = MaxFees
  /\ l.totalSwapAmount = MaxTokens + MaxFees
  /\ Count("getSwap") = 1

\* -------------------------------------------------- the router discovery
\* Before its loop the bot asks discoverSushiswapRouter for the router, with
\* the chain id of the configuration.  During the discovery l holds the chain
\* id.

\* the chain of the quote service
FILECOIN == 314

\* discoverSushiswapRouter: the address it returns (router) and whether it
\* asked for a quote (called), for a chain id and a quote service that throws
\* (thrown) or answers response; the quote is asked for 1 USDFC
discoverSushiswapRouterAnyChain(chainId, thrown, response) ==
  LET r == getSwapQuote(1, thrown, response) IN
  [router |-> IF r.quote = Null \/ ~r.quote.tx THEN "null" ELSE "router",
   called |-> r.called]

discoverSushiswapRouter(chainId, thrown, response) ==
  IF chainId # FILECOIN
  THEN [router |-> "null", called |-> FALSE]
  ELSE LET r == getSwapQuote(1, thrown, response) IN
       [router |-> IF r.quote = Null \/ ~r.quote.tx THEN "null" ELSE "router",
        called |-> r.called]

InitDiscover ==
  /\ pc = "discoverSushiswapRouter"
  /\ sushiswapRouterAddress = "null"
  /\ walletFil \in 0..MaxBalance
  /\ walletUsdfc \in 0..MaxTokens
  /\ chainAuction \in [startPrice : 0..MaxPrice, startTime : 0..1]
  /\ chainFunds \in 0..MaxFees
  /\ txCount = 0
  /\ mempool = {}
  /\ receipts = {}
  /\ l \in [chainId : {c \in ChainIds : SupportedChain(c)}]
  /\ calls = <<>>
  /\ outcome = "none"

DiscoverSushiswapRouter ==
  /\ pc = "discoverSushiswapRouter"
  /\ \E a \in QuoteAnswers :
       LET r == discoverSushiswapRouter(l.chainId, a.thrown, a.response) IN
       /\ sushiswapRouterAddress' = r.router
       /\ calls' = IF r.called THEN Append(calls, "getSwap") ELSE calls
  /\ pc' = "discovered"
  /\ UNCHANGED <<chainVars, l, outcome>>

\* the bot enters its loop
StartMonitoring ==
  /\ pc = "discovered"
  /\ pc' = "loop"
  /\ l' = NoLocals
  /\ calls' = <<>>
  /\ UNCHANGED <<sushiswapRouterAddress, chainVars, outcome>>

NextDiscover ==
  \/ DiscoverSushiswapRouter
  \/ StartMonitoring
  \/ Next

SpecDiscover == InitDiscover /\ [][NextDiscover]_vars

\* the bot is in its loop
InLoop == pc \notin {"discoverSushiswapRouter", "discovered"}

\* C31: on a chain other than mainnet the discovery asks for no quote and
\* finds no router; and with no router no check estimates swap gas or sends a
\* swap: swapGasCost is 0, the one transaction sent is the bid, with the nonce
\* read, and the one receipt awaited is the bid's.
C31_NoRouterBidOnly ==
  /\ (pc = "discovered" /\ l.chainId # FILECOIN) =>
       /\ sushiswapRouterAddress = "null"
       /\ calls = <<>>
  /\ (InLoop /\ sushiswapRouterAddress = "null") =>
       /\ Count("estimateGas") = 0
       /\ Count("sendTransaction") = 0
       /\ "swap" \notin l.estimateFailed
       /\ l.gasCosts # Null => l.gasCosts.swapGasCost = 0
       /\ l.bidTx # Null => l.bidTx.nonce = l.nonce
       /\ l.swapTx = Null
       /\ l.txResult # Null => l.txResult.swapHash = Null
       /\ l.waits \subseteq {"bid"}
       /\ l.swapReceipt = Null
       /\ Count("waitForTransactionReceipt") <= 1
       /\ \A t \in mempool : t.kind = "bid"

\* C31 witness: without a router a check has sent its bid and got the bid's
\* receipt, for a quote that carried a transaction.
C31_Witness ==
  /\ InLoop
  /\ sushiswapRouterAddress = "null"
  /\ l.swapQuote # Null
  /\ l.swapQuote.tx
  /\ l.bidReceipt # Null
  /\ outcome = "Receipts logged"
  /\ Count("waitForTransactionReceipt") = 1

\* C31 witness of the discovery: calibration, and a quote service that would
\* have answered.
C31_WitnessDiscovery ==
  /\ pc = "discovered"
  /\ l.chainId = 314159
  /\ calls = <<>>

\* ------------------------------------------------- tokens carried forward
\* The bot with a chain on which a mined transaction moves tokens: a bid
\* (burnForFees) that succeeds moves its amount from the fee pool to the
\* wallet, a swap that succeeds moves its amount out of the wallet.  The
\* wallet starts funded and without tokens, and nobody else sends it any, so
\* the tokens it holds are those of bids whose swap did not follow.

MaxCarryNonce == 3  \* checks start while the transaction count is below it

\* the check that sent transaction t still has its locals
SentByThisCheck(t) ==
  \/ t.kind = "bid" /\ l.bidTx # Null /\ t.nonce = l.bidTx.nonce
  \/ t.kind = "swap" /\ l.swapTx # Null /\ t.nonce = l.swapTx.nonce

InitCarry ==
  /\ pc = "loop"
  /\ sushiswapRouterAddress \in RouterAddresses
  /\ walletFil = MaxBalance
  /\ walletUsdfc = 0
  /\ chainAuction \in [startPrice : 0..MaxPrice, startTime : 0..1]
  /\ chainFunds \in 0..MaxFees
  /\ txCount = 0
  /\ mempool = {}
  /\ receipts = {}
  /\ l = NoLocals
  /\ calls = <<>>
  /\ outcome = "none"

StartCheckCarry ==
  /\ pc = "loop"
  /\ txCount < MaxCarryNonce
  /\ pc' = "getBalance"
  /\ UNCHANGED <<sushiswapRouterAddress, chainVars, l, calls, outcome>>

\* the chain mines the signer's next transaction and, when it succeeds, moves
\* its tokens: the bid's amount and the amount the swap was quoted for.  Of a
\* transaction whose check is over and forgotten the amount is any the chain
\* can move.  A transaction that asks for more than there is reverts.
MineTransfers ==
  /\ \E t \in mempool, status \in {"success", "reverted"},
        any \in 1..(MaxFees * MaxCarryNonce) :
       LET amount == IF ~SentByThisCheck(t) THEN any
                     ELSE IF t.kind = "bid" THEN l.bidTx.amount
                     ELSE l.totalSwapAmount
           there == IF t.kind = "bid" THEN chainFunds ELSE walletUsdfc
           moved == IF status = "success" THEN amount ELSE 0
       IN
       /\ t.nonce = txCount
       /\ SentByThisCheck(t) => any = 1
       /\ status = "success" => amount <= there
       /\ txCount' = txCount + 1
       /\ mempool' = {u \in mempool : u.nonce > t.nonce}
       /\ receipts' = IF HoldsHash(t)
                      THEN receipts \cup {[tx |-> t, status |-> status]}
                      ELSE receipts
       /\ IF t.kind = "bid"
          THEN /\ walletUsdfc' = walletUsdfc + moved
               /\ chainFunds' = chainFunds - moved
          ELSE /\ walletUsdfc' = walletUsdfc - moved
               /\ UNCHANGED chainFunds
  /\ UNCHANGED <<pc, sushiswapRouterAddress, walletFil, chainAuction, l,
                 calls, outcome>>

\* between two checks fees accrue in the pool
FeesAccrue ==
  /\ pc = "loop"
  /\ chainFunds' \in chainFunds..MaxFees
  /\ chainFunds' # chainFunds
  /\ UNCHANGED <<pc, sushiswapRouterAddress, walletFil, walletUsdfc,
                 chainAuction, txCount, mempool, receipts, l, calls, outcome>>

NextCarry ==
  \/ StartCheckCarry
  \/ GetBalance
  \/ GetTokenBalance
  \/ AuctionInfo
  \/ AuctionFunds
  \/ GetBlock
  \/ GetSwapQuote
  \/ EstimateGasCosts
  \/ GetTransactionCount
  \/ SimulateContract
  \/ WriteContract
  \/ SendTransaction
  \/ ResolveReceipt
  \/ MineTransfers
  \/ Delay
  \/ FeesAccrue

SpecCarry == InitCarry /\ [][NextCarry]_vars

C34_SamePriceAndAmount ==
  /\ [](/\ l.auctionData # Null =>
             /\ l.auctionData.bidAmount = l.auction.availableFees
             /\ l.auctionData.bidAmount = chainFunds
             /\ l.auctionData.auctionPrice <= l.auction.startPrice
             /\ Count("getBlock") = 1
        /\ l.estRequest # Null =>
             /\ l.estRequest.value = l.auctionData.auctionPrice
             /\ l.estRequest.amount = l.auctionData.bidAmount
        /\ l.profit # Null =>
             /\ l.profit.totalCost =
                  l.auctionData.auctionPrice + l.profit.totalGasCost
             /\ l.profit.totalGasCost =
                  l.gasCosts.bidGasCost + l.gasCosts.swapGasCost
        /\ l.simRequest # Null =>
             /\ l.simRequest.value = l.auctionData.auctionPrice
             /\ l.simRequest.amount = l.auctionData.bidAmount
        /\ l.bidTx # Null =>
             /\ l.bidTx.value = l.auctionData.auctionPrice
             /\ l.bidTx.amount = l.auctionData.bidAmount
             /\ l.profit.isProfitable)
  /\ [][l.auctionData # Null =>
          (l'.auctionData = l.auctionData \/ l' = NoLocals)]_vars

\* C34 witness: a bid was written at a price below the start price.
C34_Witness ==
  /\ l.bidTx # Null
  /\ l.auctionData.auctionPrice < l.auction.startPrice
  /\ l.estRequest.value = l.bidTx.value
  /\ l.bidTx.amount = chainFunds

\* C35: when a check ends, every transaction it sent has had its receipt
\* awaited and received; so when a check reads the transaction count, no
\* transaction of an earlier check is still in the mempool.
C35_AllAwaited ==
  /\ pc = "delay" =>
       /\ l.bidTx # Null => l.bidReceipt # Null
       /\ l.swapTx # Null => l.swapReceipt # Null
  /\ pc = "getTransactionCount" => mempool = {}

\* C36: receipts are waited for exactly when submitBidAndSwap returned
\* hashes, which is when the bid was written and, a swap being due, the swap
\* was sent too; when the bid was written and the swap send threw, the check
\* ends with 'Transaction submission failed', with no receipt awaited and
\* none logged.
C36_WaitsIffHashes ==
  /\ Count("waitForTransactionReceipt") > 0 <=> l.txResult # Null
  /\ l.txResult # Null <=>
       (/\ l.bidTx # Null
        /\ (swapEnabled /\ l.swapQuote.tx) => l.swapTx # Null)
  /\ (l.bidTx # Null /\ outcome = SubmitCaught) =>
       /\ pc = "delay"
       /\ LastCall = "sendTransaction"
       /\ l.swapTx = Null
       /\ l.txResult = Null
       /\ l.waits = {}
       /\ l.bidReceipt = Null
       /\ Count("waitForTransactionReceipt") = 0

\* C36 witness: the bid is in the mempool, the swap send threw and the check
\* is over.
C36_Witness ==
  /\ pc = "delay"
  /\ outcome = SubmitCaught
  /\ l.bidTx # Null
  /\ Hash("bid", l.bidTx.nonce) \in mempool
  /\ LastCall = "sendTransaction"

\* C37: with a router and a Success quote that carries no transaction, no
\* swap gas is estimated and swapGasCost is 0; the check is profitable exactly
\* when assumedAmountOut covers the auction price and the bid's gas; it goes on
\* to submit exactly when it is profitable and the balance covers the cost;
\* and it then sends the bid alone, with the nonce read, and awaits the bid's
\* receipt alone.
C37_BidWithoutSwap ==
  (/\ swapEnabled
   /\ l.swapQuote # Null
   /\ l.swapQuote.status = "Success"
   /\ ~l.swapQuote.tx) =>
    /\ Count("estimateGas") = 0
    /\ Count("sendTransaction") = 0
    /\ "swap" \notin l.estimateFailed
    /\ l.gasCosts # Null => l.gasCosts.swapGasCost = 0
    /\ l.profit # Null =>
         /\ l.profit.totalCost =
              l.auctionData.auctionPrice + l.gasCosts.bidGasCost
         /\ l.profit.isProfitable <=>
              l.swapQuote.assumedAmountOut >= l.profit.totalCost
    /\ (l.profit # Null /\ outcome # "threw") =>
         ((pc = "getTransactionCount" \/ Count("getTransactionCount") = 1) <=>
            /\ l.profit.isProfitable
            /\ l.balance >= l.profit.totalCost)
    /\ l.bidTx # Null => l.bidTx.nonce = l.nonce
    /\ l.swapTx = Null
    /\ l.txResult # Null => l.txResult.swapHash = Null
    /\ l.waits \subseteq {"bid"}
    /\ l.swapReceipt = Null
    /\ Count("waitForTransactionReceipt") <= 1

\* C37 witness: with a router, a check whose quote carried no transaction has
\* placed its bid and got its receipt.
C37_Witness ==
  /\ swapEnabled
  /\ l.swapQuote # Null
  /\ ~l.swapQuote.tx
  /\ l.bidTx # Null
  /\ l.bidReceipt # Null
  /\ outcome = "Receipts logged"
  /\ Count("sendTransaction") = 0

\* ------------------------------------------------------ the three loops
\* The loop of the bot in its three variants: the loop around processAuctions
\* (p13), the legacy multi-token loop (legacy) and the Uniswap-quote loop
\* (uni).  Here l holds the variant, the number of checks started (checks),
\* the delays slept since the last check started (sleeps), the sleep flag of
\* the Uniswap-quote loop and the locals of the check.

MaxChecks == 3  \* checks a loop starts

LoopLocals(variant) ==
  [variant |-> variant, checks |-> 0, sleeps |-> 0, sleep |-> FALSE,
   balance |-> 0, selected |-> Null, price |-> 0, amountOut |-> 0]

InitLoops ==
  /\ pc = "top"
  /\ sushiswapRouterAddress = "null"
  /\ walletFil \in 0..MaxBalance
  /\ walletUsdfc = 0
  /\ chainAuction = [startPrice |-> 0, startTime |-> 0]
  /\ chainFunds = 0
  /\ txCount = 0
  /\ mempool = {}
  /\ receipts = {}
  /\ \E variant \in {"p13", "legacy", "uni"} : l = LoopLocals(variant)
  /\ calls = <<>>
  /\ outcome = "none"

LoopUnchanged == UNCHANGED <<sushiswapRouterAddress, chainVars>>

\* a check starts: its locals are fresh
StartedCheck(loc) ==
  [loc EXCEPT !.checks = loc.checks + 1, !.sleeps = 0, !.balance = 0,
              !.selected = Null, !.price = 0, !.amountOut = 0]

\* setTimeout(delay) has elapsed
Slept(loc) == [loc EXCEPT !.sleeps = loc.sleeps + 1]

\* the outcomes of processAuctions
Outcomes ==
  {"No active auction found", "No available fees in auction",
   "Skipping auction: swap quote status",
   "Skipping auction due to gas estimation failure", "Auction not profitable",
   "Insufficient balance", SubmitCaught, "Receipts logged", "threw"}

\* ---- the loop around processAuctions
P13Start ==
  /\ pc = "top" /\ l.variant = "p13"
  /\ l.checks < MaxChecks
  /\ l' = StartedCheck(l)
  /\ pc' = "processAuctions"
  /\ calls' = <<>>
  /\ outcome' = "none"
  /\ LoopUnchanged

\* processAuctions returns or throws into the catch, which logs
P13ProcessAuctions ==
  /\ pc = "processAuctions"
  /\ outcome' \in Outcomes
  /\ pc' = "setTimeout"
  /\ calls' = Append(calls, "processAuctions")
  /\ UNCHANGED l
  /\ LoopUnchanged

P13SetTimeout ==
  /\ pc = "setTimeout" /\ l.variant = "p13"
  /\ l' = Slept(l)
  /\ pc' = "top"
  /\ UNCHANGED <<calls, outcome>>
  /\ LoopUnchanged

\* ---- the legacy multi-token loop
LegacyStart ==
  /\ pc = "top" /\ l.variant = "legacy"
  /\ l.checks < MaxChecks
  /\ l' = StartedCheck(l)
  /\ pc' = "getBalance"
  /\ calls' = <<>>
  /\ outcome' = "none"
  /\ LoopUnchanged

LegacyGetBalance ==
  /\ pc = "getBalance" /\ l.variant = "legacy"
  /\ calls' = Append(calls, "getBalance")
  /\ \E ok \in BOOLEAN :
       IF ok
       THEN /\ l' = [l EXCEPT !.balance = walletFil]
            /\ pc' = "getActiveAuctions"
            /\ UNCHANGED outcome
       ELSE /\ pc' = "setTimeout"
            /\ outcome' = "threw"
            /\ UNCHANGED l
  /\ LoopUnchanged

\* a gate of the legacy loop continues without its sleep
LegacyGateContinues(o) == pc' = "top" /\ outcome' = o

\* a gate of the legacy loop: it sleeps and continues
LegacyGate(o) == pc' = "gate" /\ outcome' = o

\* getActiveAuctions, selectFirstAvailableAuction, calculateCurrentPrice at
\* the clock's now, and the three gates
LegacyGetActiveAuctions ==
  /\ pc = "getActiveAuctions"
  /\ calls' = Append(calls, "getActiveAuctions")
  /\ \E ok \in BOOLEAN, auctions \in AuctionLists,
        now \in {1, 1 + HALVING_INTERVAL} :
       IF ~ok
       THEN /\ pc' = "setTimeout"
            /\ outcome' = "threw"
            /\ UNCHANGED l
       ELSE IF Len(auctions) = 0
       THEN LegacyGate("No active auctions found") /\ UNCHANGED l
       ELSE LET selectedAuction == selectFirstAvailableAuction(auctions) IN
            IF selectedAuction = Null
            THEN LegacyGate("No auctions with available fees") /\ UNCHANGED l
            ELSE LET currentPrice ==
                       calculateCurrentPrice(selectedAuction.startPrice,
                                             selectedAuction.startTime, now)
                 IN /\ l' = [l EXCEPT !.selected = selectedAuction,
                                      !.price = currentPrice]
                    /\ IF l.balance < currentPrice
                       THEN LegacyGate("Insufficient balance")
                       ELSE pc' = "placeBid" /\ UNCHANGED outcome
  /\ LoopUnchanged

\* placeBid returns the receipt or throws into the catch
LegacyPlaceBid ==
  /\ pc = "placeBid" /\ l.variant = "legacy"
  /\ calls' = Append(calls, "placeBid")
  /\ outcome' \in {"Bid successful", "threw"}
  /\ pc' = "setTimeout"
  /\ UNCHANGED l
  /\ LoopUnchanged

\* the sleep of a gate, followed by continue
LegacyGateSetTimeout ==
  /\ pc = "gate"
  /\ l' = Slept(l)
  /\ pc' = "top"
  /\ UNCHANGED <<calls, outcome>>
  /\ LoopUnchanged

\* the sleep at the end of the loop's body
LegacySetTimeout ==
  /\ pc = "setTimeout" /\ l.variant = "legacy"
  /\ l' = Slept(l)
  /\ pc' = "top"
  /\ UNCHANGED <<calls, outcome>>
  /\ LoopUnchanged

\* ---- the Uniswap-quote loop
\* the top of the loop: the sleep is taken when the flag is set
UniTop ==
  /\ pc = "top" /\ l.variant = "uni"
  /\ l.checks < MaxChecks
  /\ pc' = IF l.sleep THEN "sleep" ELSE "start"
  /\ UNCHANGED <<l, calls, outcome>>
  /\ LoopUnchanged

UniSetTimeout ==
  /\ pc = "sleep"
  /\ l' = Slept(l)
  /\ pc' = "start"
  /\ UNCHANGED <<calls, outcome>>
  /\ LoopUnchanged

\* the check starts without setting the flag
UniStartNoFlag ==
  /\ pc = "start"
  /\ l' = StartedCheck(l)
  /\ pc' = "getBalance"
  /\ calls' = <<>>
  /\ outcome' = "none"
  /\ LoopUnchanged

\* sleep = true, and the check starts
UniStart ==
  /\ pc = "start"
  /\ l' = [StartedCheck(l) EXCEPT !.sleep = TRUE]
  /\ pc' = "getBalance"
  /\ calls' = <<>>
  /\ outcome' = "none"
  /\ LoopUnchanged

\* continue, or the end of the body: back to the top
UniContinue(o) == pc' = "top" /\ outcome' = o

UniGetBalance ==
  /\ pc = "getBalance" /\ l.variant = "uni"
  /\ calls' = Append(calls, "getBalance")
  /\ \E ok \in BOOLEAN :
       IF ok
       THEN /\ l' = [l EXCEPT !.balance = walletFil]
            /\ pc' = "getActiveAuction"
            /\ UNCHANGED outcome
       ELSE UniContinue("threw") /\ UNCHANGED l
  /\ LoopUnchanged

\* getActiveAuction, its two gates, and auctionPriceAt at the clock's now
UniGetActiveAuction ==
  /\ pc = "getActiveAuction"
  /\ calls' = Append(calls, "getActiveAuction")
  /\ \E ok \in BOOLEAN, auction \in Auctions \cup {Null} :
       IF ~ok THEN UniContinue("threw") /\ UNCHANGED l
       ELSE IF auction = Null
       THEN UniContinue("No active auction found") /\ UNCHANGED l
       ELSE IF auction.availableFees = 0
       THEN UniContinue("No available fees in auction") /\ UNCHANGED l
       ELSE \E totalAuctionPrice \in 0..auction.startPrice :
              /\ l' = [l EXCEPT !.selected = auction,
                                !.price = totalAuctionPrice]
              /\ pc' = "getUniswapQuote"
              /\ UNCHANGED outcome
  /\ LoopUnchanged

\* getUniswapQuote in its own try, and the two gates that follow
UniGetUniswapQuote ==
  /\ pc = "getUniswapQuote"
  /\ calls' = Append(calls, "getUniswapQuote")
  /\ \E ok \in BOOLEAN, amountOut \in 0..MaxOut :
       IF ~ok
       THEN UniContinue("Skipping auction due to quote failure")
            /\ UNCHANGED l
       ELSE /\ l' = [l EXCEPT !.amountOut = amountOut]
            /\ IF l.price > amountOut
               THEN UniContinue("Auction not profitable")
               ELSE IF l.balance < l.price
               THEN UniContinue("Insufficient balance")
               ELSE pc' = "placeBid" /\ UNCHANGED outcome
  /\ LoopUnchanged

UniPlaceBid ==
  /\ pc = "placeBid" /\ l.variant = "uni"
  /\ calls' = Append(calls, "placeBid")
  /\ \E o \in {"Bid successful", "threw"} : UniContinue(o)
  /\ UNCHANGED l
  /\ LoopUnchanged

NextLoops ==
  \/ P13Start
  \/ P13ProcessAuctions
  \/ P13SetTimeout
  \/ LegacyStart
  \/ LegacyGetBalance
  \/ LegacyGetActiveAuctions
  \/ LegacyPlaceBid
  \/ LegacyGateSetTimeout
  \/ LegacySetTimeout
  \/ UniTop
  \/ UniSetTimeout
  \/ UniStart
  \/ UniGetBalance
  \/ UniGetActiveAuction
  \/ UniGetUniswapQuote
  \/ UniPlaceBid

SpecLoops == InitLoops /\ [][NextLoops]_vars

\* C38: in each of the three loops a check other than the first starts after
\* exactly one delay since the check before it started, whatever ended that
\* check; the first starts after none or, in the loop around processAuctions
\* and the legacy loop, at once; and no loop sleeps twice in a row.
C38_OneDelay ==
  /\ [](l.sleeps <= 1)
  /\ [][l'.checks = l.checks + 1 =>
          l.sleeps = (IF l.checks = 0 THEN 0 ELSE 1)]_vars

\* C38 witnesses: in each loop a later check has started after a check that
\* ended at a gate, and after one that ended in the catch.
C38_Witness ==
  /\ l.variant = "legacy"
  /\ l.checks = MaxChecks
  /\ l.sleeps = 0
  /\ pc = "getBalance"
  /\ outcome = "none"

C38_WitnessGate ==
  /\ l.variant = "legacy"
  /\ pc = "top"
  /\ l.sleeps = 1
  /\ outcome = "No auctions with available fees"

C38_WitnessUni ==
  /\ l.variant = "uni"
  /\ pc = "start"
  /\ l.sleeps = 1
  /\ l.checks >= 1
  /\ outcome = "threw"

C38_WitnessP13 ==
  /\ l.variant = "p13"
  /\ pc = "top"
  /\ l.sleeps = 1
  /\ outcome = "threw"

\* -------------------------------------------------- the two variants
\* Both variants of processAuctions on one chain: at the quote step and at the
\* gas estimation a step of either variant may be taken, every other step
\* being the same code in both.

NextBoth ==
  \/ Next
  \/ GetSwapQuoteInjected
  \/ EstimateGasCostsInjected

SpecBoth == Init /\ [][NextBoth]_vars

\* C39: when the quote returned is not null, the quote step of one variant is
\* a step of the other: same call, same locals, same gate; and when every
\* estimate call succeeded with a positive estimate, so is the estimation:
\* same calls and request, same costs, same decision.  All other steps are
\* shared, so from equal states the variants make the same calls and end the
\* same.
C39_SameBehaviour ==
  [][/\ (pc = "getSwapQuote" /\ pc' # pc /\ l'.swapQuote # Null) =>
          (GetSwapQuote /\ GetSwapQuoteInjected)
     /\ (pc = "estimateGasCosts" /\ pc' # pc /\ l'.estimateFailed = {}) =>
          (EstimateGasCosts /\ EstimateGasCostsInjected)]_vars

\* C39 witness: a check that met no failure has sent bid and swap and logged
\* both receipts.
C39_Witness ==
  /\ pc = "delay"
  /\ outcome = "Receipts logged"
  /\ l.swapQuote # Null
  /\ l.estimateFailed = {}
  /\ l.estRequest # Null
  /\ l.swapTx # Null
  /\ l.bidReceipt # Null
  /\ l.swapReceipt # Null

====
